---- MODULE Spec2Model ----
(***************************************************************************)
(* Model of custom_components/stratasys/printer.py: StratasysMonitor,      *)
(* its connection lifecycle (connect, cleanup), the fixed handshake of     *)
(* _get_printer_data, and the retry loop of get_status.                    *)
(*                                                                         *)
(* Bytes are modelled as sequences of one-character strings, indexed from  *)
(* 1 as TLA+ sequences are; operators that model Python's 0-based          *)
(* functions (find, slicing) convert explicitly.                           *)
(***************************************************************************)
EXTENDS Integers, Sequences, FiniteSets, TLC

(* ------------------------------ bounds --------------------------------- *)

\* Largest retry_attempts the model draws for PrinterConfig.
MaxRetryAttempts == 3

\* Largest number of non-empty chunks the peer delivers in one bulk transfer.
MaxChunks == 2

\* Largest number of lines of a status text given to the parser.
MaxLines == 3

\* Largest packet_size the model draws for PrinterConfig.
MaxPacketSize == 64

\* Largest number of coordinator updates the online sensor is notified of.
MaxUpdates == 7

(* ------------------------- program constants --------------------------- *)

\* PrinterConfig.packet_size (default, and the value async_setup_entry passes).
PacketSize == 64

\* The chunk size of the transfer receives: self.sock.recv(1460).
TransferChunk == 1460

\* binary_sensor.py, line 10: number of consecutive failures allowed.
MAX_FAILURES == 5

(* --------------------------- byte literals ----------------------------- *)

B_GetFile == <<"G","e","t","F","i","l","e">>

B_StatusSts == <<"s","t","a","t","u","s",".","s","t","s">>

B_NA == <<"N","A">>

B_OK == <<"O","K">>

B_SendFile == <<"S","e","n","d","F","i","l","e">>

\* b'Transferred:', the sentinel looked for in every chunk.
Sentinel == <<"T","r","a","n","s","f","e","r","r","e","d",":">>

\* b'set machineStatus', the start marker of _parse_status.
StartMarker == <<"s","e","t"," ","m","a","c","h","i","n","e","S","t","a","t","u","s">>

Digits == <<"0","1","2","3","4","5","6","7","8","9">>

\* The bytes bytes.strip() removes: ASCII whitespace.
Whitespace == {" ", "\n", "\t", "\r"}

(* ------------------------ Python byte functions ------------------------ *)

IsDigit(c) == \E i \in 1..10 : Digits[i] = c

DigitVal(c) == (CHOOSE i \in 1..10 : Digits[i] = c) - 1

\* str(n).encode() for n >= 0, as in f"Transferred: {len(data)}".
RECURSIVE IntToBytes(_)
IntToBytes(n) ==
    IF n < 10 THEN <<Digits[n + 1]>>
    ELSE IntToBytes(n \div 10) \o <<Digits[(n % 10) + 1]>>

\* The value of a non-empty sequence of decimal digits.
RECURSIVE DigitsVal(_)
DigitsVal(s) ==
    IF Len(s) = 0 THEN 0
    ELSE 10 * DigitsVal(SubSeq(s, 1, Len(s) - 1)) + DigitVal(s[Len(s)])

\* pat occurs in s at 0-based offset i.
OccursAt(s, pat, i) ==
    /\ i >= 0
    /\ i + Len(pat) <= Len(s)
    /\ \A k \in 1..Len(pat) : s[i + k] = pat[k]

\* bytes.find: the lowest 0-based offset of pat in s, or -1.
Find(s, pat) ==
    LET at == { i \in 0..(Len(s) - Len(pat)) : OccursAt(s, pat, i) }
    IN  IF at = {} THEN -1
        ELSE CHOOSE i \in at : \A j \in at : i <= j

\* pat in s
Contains(s, pat) == Find(s, pat) >= 0

\* One bound of a Python slice, brought into 0..len.
SliceBound(i, len) ==
    IF i < 0 THEN (IF i + len < 0 THEN 0 ELSE i + len)
    ELSE IF i > len THEN len ELSE i

\* s[i:j] with Python's treatment of negative and out-of-range bounds.
PySlice(s, i, j) ==
    LET lo == SliceBound(i, Len(s))
        hi == SliceBound(j, Len(s))
    IN  IF lo >= hi THEN <<>> ELSE SubSeq(s, lo + 1, hi)

\* bytes.strip()
RECURSIVE LStrip(_)
LStrip(s) ==
    IF Len(s) > 0 /\ s[1] \in Whitespace THEN LStrip(Tail(s)) ELSE s

RECURSIVE RStrip(_)
RStrip(s) ==
    IF Len(s) > 0 /\ s[Len(s)] \in Whitespace
    THEN RStrip(SubSeq(s, 1, Len(s) - 1)) ELSE s

Strip(s) == LStrip(RStrip(s))

\* s.split(b' ')[0]: the bytes before the first space (all of s when none).
FirstField(s) ==
    LET i == Find(s, <<" ">>) IN IF i < 0 THEN s ELSE SubSeq(s, 1, i)

\* int(s) accepts an optional sign followed by decimal digits (surrounding
\* whitespace is already stripped where the code calls it).
IntParses(s) ==
    LET body == IF Len(s) > 0 /\ s[1] \in {"-", "+"} THEN Tail(s) ELSE s
    IN  Len(body) > 0 /\ \A k \in 1..Len(body) : IsDigit(body[k])

IntValue(s) ==
    IF s[1] = "-" THEN 0 - DigitsVal(Tail(s))
    ELSE IF s[1] = "+" THEN DigitsVal(Tail(s))
    ELSE DigitsVal(s)

\* A padding that cuts the command to the width.
Ljust_Cuts(cmd, width) ==
    IF Len(cmd) >= width THEN SubSeq(cmd, 1, width)
    ELSE cmd \o [k \in 1..(width - Len(cmd)) |-> "\\0"]

\* data.ljust(packet_size, b'\x00'): zero bytes are written "\0".
Ljust(cmd, width) ==
    IF Len(cmd) >= width THEN cmd
    ELSE cmd \o [k \in 1..(width - Len(cmd)) |-> "\\0"]

(* --------------------------- Python str functions ---------------------- *)

\* The text of a str literal, one character per element.
UpperCase == <<"A","B","C","D","E","F","G","H","I","J","K","L","M","N","O","P","Q","R","S","T","U","V","W","X","Y","Z">>

LowerCase == <<"a","b","c","d","e","f","g","h","i","j","k","l","m","n","o","p","q","r","s","t","u","v","w","x","y","z">>

\* A byte that is no valid UTF-8, which decode(errors='ignore') drops.
InvalidByte == "\\xff"

\* bytes.decode('utf-8', errors='ignore')
Decode(b) == SelectSeq(b, LAMBDA c : c # InvalidByte)

\* str.lower()
Lower(s) ==
    [k \in 1..Len(s) |->
        IF \E i \in 1..26 : UpperCase[i] = s[k]
        THEN LowerCase[CHOOSE i \in 1..26 : UpperCase[i] = s[k]]
        ELSE s[k]]

\* s.startswith(pat)
StartsWith(s, pat) == OccursAt(s, pat, 0)

\* c in s, for one character c
HasChar(s, c) == \E k \in 1..Len(s) : s[k] = c

\* s.replace(c, '')
Remove(s, c) == SelectSeq(s, LAMBDA x : x # c)

\* s.count(c)
Count(s, c) == Len(SelectSeq(s, LAMBDA x : x = c))

\* s.isdigit()
IsDigits(s) == Len(s) > 0 /\ \A k \in 1..Len(s) : IsDigit(s[k])

\* s.split(sep) for a one-character separator: the pieces between the
\* separators, empty pieces included.
RECURSIVE SplitOn(_, _)
SplitOn(s, sep) ==
    LET i == Find(s, <<sep>>)
    IN  IF i < 0 THEN <<s>>
        ELSE <<SubSeq(s, 1, i)>> \o SplitOn(SubSeq(s, i + 2, Len(s)), sep)

\* The offset of the first whitespace character of s, or Len(s).
RECURSIVE WordEnd(_)
WordEnd(s) ==
    IF Len(s) = 0 \/ s[1] \in Whitespace THEN 0 ELSE 1 + WordEnd(Tail(s))

\* s.split(): the runs of non-whitespace characters.
RECURSIVE SplitWhitespace(_)
SplitWhitespace(s) ==
    LET t == LStrip(s)
    IN  IF Len(t) = 0 THEN <<>>
        ELSE <<SubSeq(t, 1, WordEnd(t))>>
             \o SplitWhitespace(SubSeq(t, WordEnd(t) + 1, Len(t)))

\* Line 188: [line.strip() for line in tcl_data.split('\n') if line.strip()]
StrippedLines(tcl_data) ==
    LET all == SplitOn(tcl_data, "\n")
        kept == SelectSeq(all, LAMBDA l : Strip(l) # <<>>)
    IN  [k \in 1..Len(kept) |-> Strip(kept[k])]

(* ------------------------- values of a StatusTree ---------------------- *)

\* The values the parser stores. A scalar carries its own content; a mapping
\* or a sequence is an object of the heap and is referred to by its position
\* there (ref), as Python names refer to dict and list objects.
VStr(s) == [t |-> "str", s |-> s, n |-> 0, e |-> 0, ref |-> 0]

VInt(n) == [t |-> "int", s |-> <<>>, n |-> n, e |-> 0, ref |-> 0]

\* A float is kept exactly as mantissa n and decimal exponent e: n / 10^e,
\* with no trailing zero in the fraction, so that 3.50 and 3.5 are equal.
RECURSIVE VFloat(_, _)
VFloat(n, e) ==
    IF e > 0 /\ n % 10 = 0 THEN VFloat(n \div 10, e - 1)
    ELSE [t |-> "float", s |-> <<>>, n |-> n, e |-> e, ref |-> 0]

VBool(b) == [t |-> "bool", s |-> <<>>, n |-> IF b THEN 1 ELSE 0, e |-> 0, ref |-> 0]

VRef(id) == [t |-> "ref", s |-> <<>>, n |-> 0, e |-> 0, ref |-> id]

\* The mapping with no entry, as a function from keys to values.
NoItems == [k \in {} |-> VInt(0)]

\* A dict object and a list object of the heap.
DictObj(items) == [kind |-> "dict", d |-> items, l |-> <<>>]

ListObj(elems) == [kind |-> "list", d |-> NoItems, l |-> elems]

\* d[k] = v on the items of a dict.
SetItem(items, k, v) ==
    [x \in (DOMAIN items) \cup {k} |-> IF x = k THEN v ELSE items[x]]

(* ----------------------- _parse_tcl_status, per line ------------------- *)

\* Line 195: line[line.find('(') + 1:line.find(')')]
SectionName(line) ==
    PySlice(line, Find(line, <<"(">>) + 1, Find(line, <<")">>))

\* A key that keeps the dash of its line.
KeyOf_WithDash(line) == PySlice(line, 0, Find(line, <<" ">>))

\* Line 215: line[1:line.find(' ')]
KeyOf(line) == PySlice(line, 1, Find(line, <<" ">>))

\* Line 216: line[line.find(' ') + 1:].strip()
ValueOf(line) == Strip(PySlice(line, Find(line, <<" ">>) + 1, Len(line)))

\* float(v) for a v made of digits and dots: it raises ValueError unless
\* there is exactly one dot.
FloatParses(v) == Count(v, ".") = 1

FloatValue(v) ==
    VFloat(DigitsVal(Remove(v, ".")), Len(v) - Find(v, <<".">>) - 1)

\* A typing that tests for a number first and knows no boolean.
ValueShape_NumberFirst(v) ==
    IF IsDigits(Remove(v, ".")) THEN
        (IF HasChar(v, ".") THEN "float" ELSE "int")
    ELSE IF StartsWith(v, <<"{">>) THEN
        (IF HasChar(PySlice(v, 1, -1), " ") THEN "list" ELSE "braced")
    ELSE "str"

\* Lines 218-227: which branch types the value.
ValueShape(v) ==
    IF StartsWith(v, <<"{">>) THEN
        (IF HasChar(PySlice(v, 1, -1), " ") THEN "list" ELSE "braced")
    ELSE IF IsDigits(Remove(v, ".")) THEN
        (IF HasChar(v, ".") THEN "float" ELSE "int")
    ELSE IF Lower(v) \in {<<"t","r","u","e">>, <<"f","a","l","s","e">>} THEN "bool"
    ELSE "str"

\* Line 194: the prefix of a section line.
SectionPrefix == StartMarker \o <<"(">>

\* The value is a dict object (item assignment with a str key works on
\* nothing else the parser can hold: a list, a str, a number or a bool raises
\* TypeError).
IsDictRef(heap, v) == v.t = "ref" /\ heap[v.ref].kind = "dict"

\* isinstance(current_section, list)
IsListRef(heap, v) == v.t = "ref" /\ heap[v.ref].kind = "list"

\* The locals of a call before its first line, when the call keeps no locals
\* of an earlier call.
NoLocals ==
    [heap |-> <<>>, current_section |-> VRef(1), section_stack |-> <<>>,
     exc |-> "none"]

\* Locals that keep the section stack (and the objects it refers to) of the
\* call before, as a stack held by the monitor would.
FreshLocals_KeepsStack(old) ==
    [heap |-> <<DictObj(NoItems)>> \o SubSeq(old.heap, 2, Len(old.heap)),
     current_section |-> VRef(1),
     section_stack |-> old.section_stack,
     exc |-> "none"]

\* Locals whose result is the mapping the call before built, as a result
\* held by the monitor would be.
FreshLocals_KeepsResult(old) ==
    [heap |-> IF old.heap = <<>> THEN <<DictObj(NoItems)>> ELSE old.heap,
     current_section |-> VRef(1),
     section_stack |-> <<>>,
     exc |-> "none"]

\* Lines 183-185: result = {}, current_section = result, section_stack = [].
\* result is the object at position 1 of the heap. Nothing of old, the locals
\* of the call before, is kept.
FreshLocals(old) ==
    [heap |-> <<DictObj(NoItems)>>,
     current_section |-> VRef(1),
     section_stack |-> <<>>,
     exc |-> "none"]

\* A section line that gives the section a new empty mapping each time.
SectionLine_Replaces(loc, line) ==
    LET section == SectionName(line)
        heap1 == Append([loc.heap EXCEPT ![1].d =
                            SetItem(@, section, VRef(Len(loc.heap) + 1))],
                        DictObj(NoItems))
    IN  [loc EXCEPT !.heap = heap1, !.current_section = heap1[1].d[section]]

\* Lines 194-199: a section line.
SectionLine(loc, line) ==
    LET section == SectionName(line)
        result == loc.heap[1]
        heap1 == IF section \in DOMAIN result.d THEN loc.heap
                 ELSE Append([loc.heap EXCEPT ![1].d =
                                 SetItem(@, section, VRef(Len(loc.heap) + 1))],
                             DictObj(NoItems))
    IN  [loc EXCEPT !.heap = heap1, !.current_section = heap1[1].d[section]]

\* Lines 201-207: a line that opens a block.
OpenLine(loc) ==
    LET new_section == Len(loc.heap) + 1
        cur == loc.current_section
        heap1 == IF IsListRef(loc.heap, cur)
                 THEN [loc.heap EXCEPT ![cur.ref].l = Append(@, VRef(new_section))]
                 ELSE loc.heap
    IN  [loc EXCEPT !.heap = Append(heap1, DictObj(NoItems)),
                    !.section_stack = Append(@, cur),
                    !.current_section = VRef(new_section)]

\* A closing line that goes back to the container before the block and
\* leaves the stack as it is.
CloseLine_KeepsLevel(loc) ==
    IF loc.section_stack # <<>>
    THEN [loc EXCEPT !.current_section = loc.section_stack[Len(loc.section_stack)]]
    ELSE loc

\* A closing line that goes back to the root when no block is open.
CloseLine_ToRoot(loc) ==
    IF loc.section_stack # <<>>
    THEN [loc EXCEPT !.current_section = loc.section_stack[Len(loc.section_stack)],
                     !.section_stack = SubSeq(@, 1, Len(@) - 1)]
    ELSE [loc EXCEPT !.current_section = VRef(1)]

\* Lines 209-212: a line that closes a block.
CloseLine(loc) ==
    IF loc.section_stack # <<>>
    THEN [loc EXCEPT !.current_section = loc.section_stack[Len(loc.section_stack)],
                     !.section_stack = SubSeq(@, 1, Len(@) - 1)]
    ELSE loc

\* Lines 214-229: a key-value line. The value is typed first (float() may
\* raise ValueError), then stored in current_section (TypeError unless that is
\* a dict).
KeyValueLine(loc, line) ==
    LET key == KeyOf(line)
        v == ValueOf(line)
        shape == ValueShape(v)
        inner == PySlice(v, 1, -1)
        cur == loc.current_section
        words == SplitWhitespace(inner)
        heap1 == IF shape = "list"
                 THEN Append(loc.heap, ListObj([k \in 1..Len(words) |-> VStr(words[k])]))
                 ELSE loc.heap
        value == CASE shape = "list" -> VRef(Len(heap1))
                   [] shape = "braced" -> VStr(inner)
                   [] shape = "float" -> FloatValue(v)
                   [] shape = "int" -> VInt(DigitsVal(v))
                   [] shape = "bool" -> VBool(Lower(v) = <<"t","r","u","e">>)
                   [] OTHER -> VStr(v)
    IN  IF shape = "float" /\ ~FloatParses(v)
        THEN [loc EXCEPT !.exc = "ValueError"]
        ELSE IF ~IsDictRef(loc.heap, cur)
        THEN [loc EXCEPT !.exc = "TypeError"]
        ELSE [loc EXCEPT !.heap = [heap1 EXCEPT ![cur.ref].d = SetItem(@, key, value)]]

\* Lines 190-229: the body of the loop for one line.
ParseLine(loc, line) ==
    IF line = <<>> \/ StartsWith(line, <<"#">>) THEN loc
    ELSE IF StartsWith(line, SectionPrefix) THEN SectionLine(loc, line)
    ELSE IF StartsWith(line, <<"{">>) THEN OpenLine(loc)
    ELSE IF StartsWith(line, <<"}">>) THEN CloseLine(loc)
    ELSE IF HasChar(line, "-") THEN KeyValueLine(loc, line)
    ELSE loc

\* Lines 190-229: the loop, which an exception leaves at once.
RECURSIVE ParseLines(_, _)
ParseLines(loc, lines) ==
    IF lines = <<>> \/ loc.exc # "none" THEN loc
    ELSE ParseLines(ParseLine(loc, Head(lines)), Tail(lines))

(* ------------------------------ the StatusTree ------------------------- *)

\* A mapping, a sequence or a scalar as a value of its own, with the objects
\* it refers to in place of the references: two trees are equal exactly when
\* Python's == holds of them.
Scalar(v) ==
    [t |-> v.t, s |-> v.s, n |-> v.n, e |-> v.e, d |-> NoItems, l |-> <<>>]

RECURSIVE TreeOf(_, _)
TreeOf(heap, v) ==
    IF v.t # "ref" THEN Scalar(v)
    ELSE IF heap[v.ref].kind = "dict"
    THEN [t |-> "dict", s |-> <<>>, n |-> 0, e |-> 0,
          d |-> [k \in DOMAIN heap[v.ref].d |-> TreeOf(heap, heap[v.ref].d[k])],
          l |-> <<>>]
    ELSE [t |-> "list", s |-> <<>>, n |-> 0, e |-> 0, d |-> NoItems,
          l |-> [k \in 1..Len(heap[v.ref].l) |-> TreeOf(heap, heap[v.ref].l[k])]]

\* The mapping {}.
EmptyTree == TreeOf(<<DictObj(NoItems)>>, VRef(1))

\* Line 231: except Exception, which ValueError and TypeError both are.
ParserCatches(exc) == exc \in {"ValueError", "TypeError"}

\* A parser that returns what it has built when an exception stops it.
TclReturn_KeepsPartial(loc) ==
    [exc |-> "none", tree |-> TreeOf(loc.heap, VRef(1))]

\* Lines 231-235: what the call ends with, given its locals after the loop:
\* the exception that leaves it (none when it returns) and the tree returned.
TclReturn(loc) ==
    IF loc.exc = "none" THEN [exc |-> "none", tree |-> TreeOf(loc.heap, VRef(1))]
    ELSE IF ParserCatches(loc.exc) THEN [exc |-> "none", tree |-> EmptyTree]
    ELSE [exc |-> loc.exc, tree |-> EmptyTree]

\* _parse_tcl_status(tcl_data), lines 181-235.
ParseTclStatus(tcl_data) ==
    TclReturn(ParseLines(FreshLocals(NoLocals), StrippedLines(tcl_data)))

(* ------------------------------ _parse_status -------------------------- *)

\* A slice that starts with the payload instead of the marker.
StatusSlice_FromStart(d) == PySlice(d, 0, Find(d, Sentinel))

\* A slice that runs to the end of the payload when the sentinel is missing.
StatusSlice_ToEnd(d) ==
    PySlice(d, Find(d, StartMarker),
            IF Find(d, Sentinel) < 0 THEN Len(d) ELSE Find(d, Sentinel))

\* Line 164: data[data.find(b'set machineStatus'):data.find(b'Transferred:')]
StatusSlice(d) == PySlice(d, Find(d, StartMarker), Find(d, Sentinel))

\* A _parse_status that returns the tree whether or not the snapshot file
\* could be written.
StatusReturn_IgnoresCache(slice, parsed, cacheOk) ==
    IF slice = <<>> \/ parsed.exc # "none" THEN EmptyTree
    ELSE parsed.tree

\* Lines 165-179, given what the parser ended with: an empty slice (ValueError,
\* line 166), an exception out of the parser, or a failure to write the
\* snapshot file (lines 170-173) gives {}; otherwise the tree parsed.
StatusReturn(slice, parsed, cacheOk) ==
    IF slice = <<>> \/ parsed.exc # "none" \/ ~cacheOk THEN EmptyTree
    ELSE parsed.tree

\* _parse_status(data), lines 161-179.
ParseStatus(d, cacheOk) ==
    [kind |-> "mapping",
     tree |-> StatusReturn(StatusSlice(d), ParseTclStatus(Decode(StatusSlice(d))), cacheOk)]

(* ----------------------- what the parser may be given ------------------ *)

L_General == StartMarker \o <<"(","g","e","n","e","r","a","l",")">>

L_Foo == StartMarker \o <<"(","f","o","o",")">>

L_Bar == <<"-","b","a","r"," ","F","A","L","S","E">>

L_Dots == <<"-","f","o","o"," ","1",".","2",".","3">>

\* The lines the longer texts are made of: section lines, block lines, and
\* key-value lines with an integer, a boolean, a sequence and a value of
\* digits with two dots.
TclLines ==
    { L_General, L_Foo, <<"{">>, <<"}">>,
      <<"-","f","o","o"," ","3">>,
      L_Bar,
      <<"-","f","o","o"," ","{","a"," ","b"," ","c","}">>,
      L_Dots }

\* Lines of the other shapes: the remaining value shapes, a comment, and a
\* line with a dash in its middle only.
OtherLines ==
    { <<"-","f","o","o"," ","3",".","5">>,
      <<"-","f","o","o"," ","t","r","u","e">>,
      <<"-","f","o","o"," ","{","b","a","r","}">>,
      <<"-","f","o","o"," ","b","a","r">>,
      <<"-","f","o","o"," ","-","5">>,
      <<"#"," ","n","o","t","e">>,
      <<" ","a","-","b"," ","c">> }

\* '\n'.join(ls)
RECURSIVE JoinLines(_)
JoinLines(ls) ==
    IF Len(ls) = 0 THEN <<>>
    ELSE IF Len(ls) = 1 THEN ls[1]
    ELSE ls[1] \o <<"\n">> \o JoinLines(Tail(ls))

\* Texts with a section line inside a block that was opened in another
\* section, the block closed again, with and without a key-value line after.
NestedTexts ==
    { JoinLines(<<L_General, <<"{">>, L_Foo, <<"}">> >>),
      JoinLines(<<L_General, <<"{">>, L_Foo, <<"}">>, <<"-","f","o","o"," ","3">> >>) }

\* The texts the parser is given: every text of at most MaxLines lines of
\* TclLines, every line of OtherLines alone and after a line of TclLines,
\* and the texts of NestedTexts.
Texts ==
    { JoinLines(ls) : ls \in UNION { [1..n -> TclLines] : n \in 0..MaxLines } }
    \cup OtherLines
    \cup { JoinLines(<<a, b>>) : a \in TclLines, b \in OtherLines }
    \cup NestedTexts

\* The texts of fewer than MaxLines lines of TclLines.
ShortTexts ==
    { JoinLines(ls) : ls \in UNION { [1..n -> TclLines] : n \in 0..(MaxLines - 1) } }

\* A text parsed between two parses of the same text: it leaves a block open.
Between == { JoinLines(<<L_General, <<"{">>, L_Bar>>) }

\* What may follow the status text in a payload: nothing, or a byte that is
\* no UTF-8 and the sentinel.
PayloadEnds == { <<>>, <<InvalidByte>> \o Sentinel }

(* ------------------------- what the peer may send ---------------------- *)

\* A chunk of status text that opens the general section.
ChunkStatus == <<"s","e","t"," ","m","a","c","h","i","n","e","S","t","a","t","u","s","(","g","e","n","e","r","a","l",")","\n","-","m","o","d","e","l","e","r","S","t","a","t","u","s"," ","{","B","u","i","l","d","i","n","g","}","\n">>

\* A chunk of status text with no marker in it, and with a value the parser
\* fails on (digits with two dots).
ChunkPlain == <<"-","m","o","d","e","l","e","r","V","e","r","s","i","o","n"," ","1",".","2",".","3","\n">>

\* A chunk that ends with the sentinel; with ChunkStatus before it the payload
\* has 120 bytes.
ChunkTail == <<"-","m","o","d","e","l","e","r","T","y","p","e"," ","{","u","P","r","i","n","t","}","\n","-","c","u","r","r","e","n","t","J","o","b"," ","{","b","r","a","c","k","e","t",".","c","m","b","}","\n","-","b","a","y"," ","1","\n","T","r","a","n","s","f","e","r","r","e","d",":">>

\* The non-empty chunks a transfer receive may return.
Chunks == {ChunkStatus, ChunkPlain, ChunkTail}

\* What a receive of the handshake (steps 4 and 5) may return: the expected
\* replies, another reply, and the empty result of a closed connection.
HandshakeReplies == {B_SendFile, B_NA, <<"E","R","R">>, <<>>}

\* What the receive of step 7 may return: sizes that match sums of chunk
\* lengths (0, 53 = ChunkStatus, 75 = ChunkStatus + ChunkPlain, 120 =
\* ChunkStatus + ChunkTail), a signed number, a non-number, blanks only, and
\* the empty result.
SizeReplies ==
    { <<"0"," ">>, <<"5","3"," ">>, <<"7","5"," ">>, <<"1","2","0"," ">>,
      <<"-","5"," ">>, <<"a","b","c">>, <<" ">>, <<>> }

\* How a socket call may fail: socket.timeout, or another socket.error.
SocketFailures == {"timeout", "oserror"}

\* connect(): it succeeds, socket.socket() raises, or sock.connect() raises.
ConnectOutcomes == {"ok", "socket_error", "connect_error"}

\* PrinterError and its subclasses, the exceptions get_status catches.
PrinterErrors == {"PrinterError", "ConnectionError", "ProtocolError"}

(* -------------------------------- state -------------------------------- *)

VARIABLES
    retry_attempts, \* config.retry_attempts
    status_file,    \* config.status_file
    packet_size,    \* config.packet_size
    sock,           \* self.sock: "none", "unconnected" (connect raised), "connected"
    connected,      \* self.connected
    sockTimeout,    \* active timeout of self.sock: "short" (config.timeout) or "long" (5.0)
    openSockets,    \* sockets the monitor has created and not closed
    sockHist,       \* what self.sock has carried: "fresh", "used" (a handshake was
                    \* started on it), "cancelled" (a handshake on it was cancelled)
    pc,             \* position of the running get_status call; "idle" when none runs
    attempt,        \* loop variable of get_status
    outcome,        \* how the last call ended: "none", "returned", "raised", "cancelled"
    err,            \* the exception of the last failed attempt, as get_status sees it
    cause,          \* the exception first raised in that attempt
    errFrom,        \* where it was raised: "connect" or "handshake"
    result,         \* the value get_status returned
    retrySleeps,    \* retry_delay waits of the running call
    expected_size,  \* local of _get_printer_data
    data,           \* local of _get_printer_data (the accumulated payload)
    emptyFirst,     \* attempts of the running call whose first transfer receive
                    \* returned empty
    trace,          \* what the current attempt has done so far, in order
    input,          \* the status text the parser calls of this monitor are about
    entry,          \* the function called last: "tcl" (_parse_tcl_status),
                    \* "status" (_parse_status), "none" before any call
    arg,            \* its argument: tcl_data, or the payload data
    tcl_data,       \* the text _parse_tcl_status was given by that call
    loc,            \* locals of _parse_tcl_status as its loop left them: the
                    \* heap of its objects (result first), current_section,
                    \* section_stack, and the exception raised in the loop
    parsed,         \* what the call ended with: exception, tree returned
    snapshot,       \* the write of last_status.json in that call: "none" (not
                    \* reached), "written", "failed"
    repeat,         \* whether the monitor's parser is called more than once
    first,          \* what the first _parse_tcl_status(input) call returned
    between,        \* another text was parsed since that first call
    command,        \* the data the last _send_packet call was given
    frame,          \* the bytes that call handed to self.sock.send
    sendError,      \* the exception that call raised, "none" when it returned
    failure_count,  \* _failure_count of the online binary sensor
    last_update_success, \* coordinator.last_update_success
    updates         \* the updates the sensor was notified of, in order: TRUE
                    \* for an update that succeeded

vars ==
    << retry_attempts, status_file, sock, connected, sockTimeout, sockHist,
       openSockets, pc, attempt,
       outcome, err, cause, errFrom, result, retrySleeps, expected_size,
       data, emptyFirst, trace, input, repeat, entry, arg, tcl_data, loc,
       parsed, snapshot, first, between, packet_size, command, frame,
       sendError, failure_count, last_update_success, updates >>

\* What get_status, connect and cleanup work on.
protoVars ==
    << retry_attempts, status_file, packet_size, sock, connected, sockTimeout,
       sockHist, openSockets, pc, attempt,
       outcome, err, cause, errFrom, result, retrySleeps, expected_size,
       data, emptyFirst, trace >>

\* What the parser calls work on.
parseVars ==
    << input, repeat, entry, arg, tcl_data, loc, parsed, snapshot, first,
       between >>

\* The PrinterConfig of the monitor, which no method changes.
cfgVars == << retry_attempts, status_file, packet_size >>

\* What a _send_packet call on its own sets.
frameVars == << command, frame, sendError >>

\* What the online binary sensor and its coordinator hold.
sensorVars == << failure_count, last_update_success, updates >>

\* What a parser call sets.
parseCallVars == << entry, arg, tcl_data, loc, parsed, snapshot >>

sockVars == << sock, connected, sockTimeout, sockHist, openSockets >>

callVars == << attempt, outcome, err, cause, errFrom, result, retrySleeps >>

hsVars == << expected_size, data, emptyFirst >>

\* No value returned (yet).
NoResult == [kind |-> "none", tree |-> EmptyTree]

\* Python's None, which a function returns when it falls off its end.
NoneResult == [kind |-> "None", tree |-> EmptyTree]

\* The empty mapping {}.
EmptyMapping == [kind |-> "mapping", tree |-> EmptyTree]

(* ------------------------------ trace entries -------------------------- *)

OpSend(cmd) ==
    [op |-> "send", frame |-> cmd, n |-> Len(Ljust(cmd, packet_size)),
     got |-> <<>>, what |-> ""]

OpRecv(max, bytes) ==
    [op |-> "recv", frame |-> <<>>, n |-> max, got |-> bytes, what |-> ""]

OpDelay(name) ==
    [op |-> "delay", frame |-> <<>>, n |-> 0, got |-> <<>>, what |-> name]

OpConnect ==
    [op |-> "connect", frame |-> <<>>, n |-> 0, got |-> <<>>, what |-> ""]

(* ------------------- the parser as calls on the monitor ---------------- *)

\* No value returned yet.
NoParse == [exc |-> "none", tree |-> EmptyTree]

\* No parser call has been made on the monitor.
ParserIdle ==
    /\ entry = "none"
    /\ arg = <<>>
    /\ tcl_data = <<>>
    /\ loc = NoLocals
    /\ parsed = NoParse
    /\ snapshot = "none"
    /\ first = [known |-> FALSE, parsed |-> NoParse]
    /\ between = FALSE

\* No _send_packet call on its own has been made.
FrameIdle ==
    /\ command = <<>>
    /\ frame = <<>>
    /\ sendError = "none"

\* The online binary sensor as __init__ leaves it (binary_sensor.py, lines
\* 27-32), added after the coordinator's first refresh has succeeded.
SensorIdle ==
    /\ failure_count = 0
    /\ last_update_success = TRUE
    /\ updates = <<>>

\* The monitor before any get_status call, with what connect and the handshake
\* work on left as __init__ leaves it.
MonitorIdle ==
    /\ sock = "none"
    /\ connected = FALSE
    /\ sockTimeout = "short"
    /\ sockHist = "fresh"
    /\ openSockets = 0
    /\ pc = "idle"
    /\ attempt = 0
    /\ outcome = "none"
    /\ err = "none"
    /\ cause = "none"
    /\ errFrom = "none"
    /\ result = NoResult
    /\ retrySleeps = 0
    /\ expected_size = 0
    /\ data = <<>>
    /\ emptyFirst = 0
    /\ trace = <<>>

\* A monitor whose parser is called once, with any text of Texts.
InitParse ==
    /\ retry_attempts = 1
    /\ status_file = B_StatusSts
    /\ packet_size = PacketSize
    /\ MonitorIdle
    /\ input \in Texts
    /\ repeat = FALSE
    /\ ParserIdle
    /\ FrameIdle
    /\ SensorIdle

\* A monitor whose parser is called again and again, with a text of
\* ShortTexts and with the texts of Between.
InitReparse ==
    /\ retry_attempts = 1
    /\ status_file = B_StatusSts
    /\ packet_size = PacketSize
    /\ MonitorIdle
    /\ input \in ShortTexts
    /\ repeat = TRUE
    /\ ParserIdle
    /\ FrameIdle
    /\ SensorIdle

\* A connected monitor with any packet_size, whose _send_packet is called
\* with the commands of the handshake.
InitFrame ==
    /\ retry_attempts = 1
    /\ status_file = B_StatusSts
    /\ packet_size \in 1..MaxPacketSize
    /\ sock = "connected"
    /\ connected = TRUE
    /\ sockTimeout = "short"
    /\ sockHist = "fresh"
    /\ openSockets = 1
    /\ pc = "idle"
    /\ attempt = 0
    /\ outcome = "none"
    /\ err = "none"
    /\ cause = "none"
    /\ errFrom = "none"
    /\ result = NoResult
    /\ retrySleeps = 0
    /\ expected_size = 0
    /\ data = <<>>
    /\ emptyFirst = 0
    /\ trace = <<>>
    /\ input = <<>>
    /\ repeat = FALSE
    /\ ParserIdle
    /\ FrameIdle
    /\ SensorIdle

\* The PrinterConfigs the model draws: retry_attempts is at least 1 (the
\* integration passes 3), status_file is the default or a name of the user's.
Configs ==
    { [retry_attempts |-> n, status_file |-> B_StatusSts] : n \in 1..MaxRetryAttempts }
    \cup { [retry_attempts |-> 1, status_file |-> <<"j","o","b",".","s","t","s">>] }

\* A monitor as __init__ leaves it.
Init ==
    /\ \E config \in Configs :
          /\ retry_attempts = config.retry_attempts
          /\ status_file = config.status_file
    /\ packet_size = PacketSize
    /\ MonitorIdle
    /\ input = <<>>
    /\ repeat = FALSE
    /\ ParserIdle
    /\ FrameIdle
    /\ SensorIdle

(* --------------------------- connect, cleanup -------------------------- *)

\* A connect() that drops the socket it holds without closing it.
AfterClose_Leaks(s, n) == n

\* Lines 257-262 and 276-281: the socket held, if any, is closed before it
\* is dropped; n sockets were open.
AfterClose(s, n) == IF s # "none" THEN n - 1 ELSE n

\* Line 264: socket.socket() has returned a socket in every outcome of
\* connect() but the one in which it raised.
Created(o) == IF o \in {"ok", "connect_error"} THEN 1 ELSE 0

\* A connect() that reports the monitor connected however the attempt ended.
ConnectEffect_AlwaysConnected(o) ==
    /\ sock' = CASE o = "ok" -> "connected"
                 [] o = "connect_error" -> "unconnected"
                 [] OTHER -> "none"
    /\ connected' = TRUE
    /\ sockTimeout' = "short"
    /\ sockHist' = "fresh"
    /\ openSockets' = AfterClose(sock, openSockets) + Created(o)

\* connect(), lines 256-272: the socket held is closed and dropped, a new one
\* is created with the short timeout and connected.
ConnectEffect(o) ==
    /\ sock' = CASE o = "ok" -> "connected"
                 [] o = "connect_error" -> "unconnected"
                 [] OTHER -> "none"
    /\ connected' = (o = "ok")
    /\ sockTimeout' = "short"
    /\ sockHist' = "fresh"
    /\ openSockets' = AfterClose(sock, openSockets) + Created(o)

\* How self.sock.close() may end.
CloseOutcomes == {"ok", "oserror"}

\* A try statement around close() that does not catch what close() raises.
CloseLeaves_Propagates(o) == o

\* Lines 277-280: close() inside try / except Exception: pass. What leaves the
\* try statement: nothing ("ok"), whatever close() did.
CloseLeaves(o) == "ok"

\* cleanup(), lines 274-283. Were an exception to leave the try statement,
\* lines 281-282 would not run: the socket would stay held and connected stay
\* as it was (sockHist then records "close_raised").
CleanupEffect ==
    \E o \in (IF sock = "none" THEN {"ok"} ELSE CloseOutcomes) :
        IF CloseLeaves(o) = "ok"
        THEN /\ sock' = "none"
             /\ connected' = FALSE
             /\ sockTimeout' = "short"
             /\ sockHist' = "fresh"
             /\ openSockets' = AfterClose(sock, openSockets)
        ELSE /\ sockHist' = "close_raised"
             /\ UNCHANGED << sock, connected, sockTimeout, openSockets >>

(* ------------------------ a call of _parse_status ---------------------- *)

\* _parse_status(d), lines 161-179, as it acts on the state. With an empty
\* slice the parser is not called (lines 165-166); otherwise the parser runs
\* on the decoded slice and the snapshot file is written, or fails to be
\* (lines 170-173), with what the parser returned.
StatusCallEffect(d) ==
    LET status_data == StatusSlice(d)
        end == ParseLines(FreshLocals(loc), StrippedLines(Decode(status_data)))
        ret == TclReturn(end)
    IN  /\ entry' = "status"
        /\ arg' = d
        /\ IF status_data = <<>>
           THEN /\ parsed' = [exc |-> "none",
                              tree |-> StatusReturn(status_data, NoParse, TRUE)]
                /\ tcl_data' = <<>>
                /\ snapshot' = "none"
                /\ UNCHANGED loc
           ELSE /\ tcl_data' = Decode(status_data)
                /\ loc' = end
                /\ \E cacheOk \in (IF ret.exc = "none" THEN BOOLEAN ELSE {TRUE}) :
                      /\ parsed' = [exc |-> "none",
                                    tree |-> StatusReturn(status_data, ret, cacheOk)]
                      /\ snapshot' = IF ret.exc # "none" THEN "none"
                                     ELSE IF cacheOk THEN "written" ELSE "failed"

(* ----------------------- pieces of the control flow -------------------- *)

\* A retry test that is off by one: the last attempt waits and continues too.
MoreAttempts_OffByOne(a, n) == a < n

\* Line 249: attempt < self.config.retry_attempts - 1
MoreAttempts(a, n) == a < n - 1

\* A handler that lets a PrinterError raised inside the sequence pass as it is.
Rewrap_KeepsPrinterError(e) == IF e \in PrinterErrors THEN e ELSE "ProtocolError"

\* Lines 154-156: except Exception -> raise ProtocolError(...)
Rewrap(e) == "ProtocolError"

\* A sequence without the finally clause: the timeout stays as it is.
FinallyTimeout_Missing(s, t) == t

\* Lines 157-159: finally: if self.sock: self.sock.settimeout(config.timeout)
FinallyTimeout(s, t) == IF s # "none" THEN "short" ELSE t

\* Lines 87-90: _send_packet turns socket.timeout and socket.error into
\* ConnectionError; anything else (self.sock is None) passes through.
SendPacketError(f) ==
    IF f \in SocketFailures THEN "ConnectionError" ELSE f

\* The exception a direct self.sock.recv raises.
RecvError(f) ==
    CASE f = "timeout" -> "socket.timeout"
      [] f = "oserror" -> "OSError"
      [] OTHER -> f

\* A transfer that receives once instead of looping.
LoopContinues_Once(len, size) == len = 0 /\ len < size

\* A loop that goes on while the payload is no longer than announced.
LoopContinues_UpTo(len, size) == len <= size

\* A loop whose body runs once before the condition is tested.
LoopContinues_DoWhile(len, size) == len = 0 \/ len < size

\* Line 136: while len(data) < expected_size
LoopContinues(len, size) == len < size

\* A payload buffer that is kept from one attempt to the next.
NewData_Kept(old) == old

\* Line 133: data = bytearray()
NewData(old) == <<>>

\* A loop that only breaks on an empty receive, whatever was accumulated.
ClosedWithoutData_Ignored(len) == FALSE

\* Lines 139-141: an empty receive with nothing accumulated is an error.
ClosedWithoutData(len) == len = 0

\* How a send on self.sock may end.
SendResults == IF sock = "none" THEN {"AttributeError"} ELSE {"ok"} \cup SocketFailures

\* How a receive on self.sock may end, replies being what the peer may send.
RecvResults(replies) ==
    IF sock = "none" THEN {[kind |-> "AttributeError", bytes |-> <<>>]}
    ELSE {[kind |-> "bytes", bytes |-> b] : b \in replies}
         \cup {[kind |-> f, bytes |-> <<>>] : f \in SocketFailures}

\* Non-empty chunks the current transfer has received.
ChunksReceived ==
    Cardinality({k \in 1..Len(trace) :
        trace[k].op = "recv" /\ trace[k].n = TransferChunk /\ trace[k].got # <<>>})

\* The except clause of get_status, lines 247-252, for exception e of the
\* current attempt (first raised as c, in connect or in the handshake). An
\* exception that is no PrinterError is not caught and leaves get_status.
Failed(e, c, from) ==
    /\ err' = e
    /\ cause' = c
    /\ errFrom' = from
    /\ IF e \in PrinterErrors /\ MoreAttempts(attempt, retry_attempts)
       THEN pc' = "retry_delay" /\ outcome' = outcome
       ELSE pc' = "idle" /\ outcome' = "raised"
    /\ UNCHANGED << attempt, result, retrySleeps >>

\* A handshake whose failure marks the monitor as not connected.
HsRaise_Disconnects(inner) ==
    /\ sockTimeout' = FinallyTimeout(sock, sockTimeout)
    /\ connected' = FALSE
    /\ UNCHANGED << sock, openSockets >>
    /\ Failed(Rewrap(inner), inner, "handshake")

\* An exception inside _get_printer_data: except (154-156), finally (157-159),
\* then the except clause of get_status.
HsRaise(inner) ==
    /\ sockTimeout' = FinallyTimeout(sock, sockTimeout)
    /\ UNCHANGED << sock, connected, openSockets >>
    /\ Failed(Rewrap(inner), inner, "handshake")

\* A step of the handshake that went well: on to position p.
HsGoes(p) ==
    /\ pc' = p
    /\ UNCHANGED << sock, connected, sockTimeout, openSockets >>
    /\ UNCHANGED callVars

(* ------------------------------ get_status ----------------------------- *)

\* A caller invokes get_status (no other call is running).
GetStatus ==
    /\ pc = "idle"
    /\ pc' = "attempt"
    /\ attempt' = 0
    /\ outcome' = "none"
    /\ err' = "none"
    /\ cause' = "none"
    /\ errFrom' = "none"
    /\ result' = NoResult
    /\ retrySleeps' = 0
    /\ expected_size' = 0
    /\ data' = <<>>
    /\ emptyFirst' = 0
    /\ trace' = <<>>
    /\ entry' = "none"
    /\ arg' = <<>>
    /\ tcl_data' = <<>>
    /\ loc' = NoLocals
    /\ parsed' = NoParse
    /\ snapshot' = "none"
    /\ UNCHANGED << input, repeat, first, between, frameVars, sensorVars >>
    /\ UNCHANGED << cfgVars, sockVars >>

\* Lines 240-242: top of an attempt; connect() when not connected.
AttemptTop ==
    /\ pc = "attempt"
    /\ IF connected
       THEN /\ pc' = "send_getfile"
            /\ trace' = <<>>
            /\ UNCHANGED sockVars
            /\ UNCHANGED callVars
       ELSE \E o \in ConnectOutcomes :
            /\ ConnectEffect(o)
            /\ trace' = <<OpConnect>>
            /\ IF o = "ok"
               THEN pc' = "send_getfile" /\ UNCHANGED callVars
               ELSE Failed("ConnectionError", o, "connect")
    /\ UNCHANGED << parseVars, frameVars, sensorVars, cfgVars, hsVars >>

\* Line 250-251: the retry delay has elapsed; continue with the next attempt.
\* A loop that runs out of attempts ends the function, which returns None.
RetryDelayDone ==
    /\ pc = "retry_delay"
    /\ attempt' = attempt + 1
    /\ retrySleeps' = retrySleeps + 1
    /\ IF attempt + 1 < retry_attempts
       THEN pc' = "attempt" /\ outcome' = outcome /\ result' = result
       ELSE pc' = "idle" /\ outcome' = "returned" /\ result' = NoneResult
    /\ UNCHANGED << parseVars, frameVars, sensorVars, cfgVars, sockVars, hsVars, err, cause, errFrom, trace >>

(* --------------------------- _get_printer_data ------------------------- *)

\* A send through _send_packet at position p that changes nothing else:
\* on success the handshake goes on at position q.
PlainSend(p, cmd, q) ==
    /\ pc = p
    /\ trace' = Append(trace, OpSend(cmd))
    /\ \E o \in SendResults :
        IF o = "ok" THEN HsGoes(q) ELSE HsRaise(SendPacketError(o))
    /\ UNCHANGED << parseVars, frameVars, sensorVars, cfgVars, sockHist, hsVars >>

\* An inter-step delay (asyncio.sleep) at position p has elapsed.
Delay(p, name, q) ==
    /\ pc = p
    /\ pc' = q
    /\ trace' = Append(trace, OpDelay(name))
    /\ UNCHANGED << parseVars, frameVars, sensorVars, cfgVars, sockVars, callVars, hsVars >>

\* Line 96, step 1: send GetFile. The socket has now carried a handshake.
SendGetFile ==
    /\ pc = "send_getfile"
    /\ trace' = Append(trace, OpSend(B_GetFile))
    /\ sockHist' = IF sockHist = "fresh" THEN "used" ELSE sockHist
    /\ \E o \in SendResults :
        IF o = "ok" THEN HsGoes("delay_cmd1") ELSE HsRaise(SendPacketError(o))
    /\ UNCHANGED << parseVars, frameVars, sensorVars, cfgVars, hsVars >>

\* Line 97
DelayCommand1 == Delay("delay_cmd1", "command", "send_filename")

\* A sequence that leaves step 2 out.
SendFilename_Skipped == PlainSend("send_filename", B_NA, "delay_resp")

\* Line 99, step 2: the filename sent is the literal b'status.sts'.
SendFilename == PlainSend("send_filename", B_StatusSts, "delay_cmd2")

\* Line 100
DelayCommand2 == Delay("delay_cmd2", "command", "send_na")

\* A step 3 that is followed by the first receive at once.
SendNA_NoWait == PlainSend("send_na", B_NA, "recv_sendfile")

\* Line 103, step 3
SendNA == PlainSend("send_na", B_NA, "delay_resp")

\* Line 104
DelayResponse == Delay("delay_resp", "response", "recv_sendfile")

\* A receive of the handshake whose reply must contain `marker`.
MarkerRecv(p, marker, q) ==
    /\ pc = p
    /\ \E r \in RecvResults(HandshakeReplies) :
        /\ trace' = Append(trace, OpRecv(packet_size, r.bytes))
        /\ IF r.kind # "bytes" THEN HsRaise(RecvError(r.kind))
           ELSE IF ~Contains(r.bytes, marker) THEN HsRaise("ProtocolError")
           ELSE HsGoes(q)
    /\ UNCHANGED << parseVars, frameVars, sensorVars, cfgVars, sockHist, hsVars >>

\* Lines 107-109, step 4
RecvSendFile == MarkerRecv("recv_sendfile", B_SendFile, "delay_xfer")

\* Line 110
DelayTransfer == Delay("delay_xfer", "transfer", "recv_na")

\* A step 5 that takes any reply for the NA of the peer.
RecvNA_Unchecked == MarkerRecv("recv_na", <<>>, "send_ok1")

\* Lines 113-115, step 5
RecvNA == MarkerRecv("recv_na", B_NA, "send_ok1")

\* Line 118, step 6
SendOK1 == PlainSend("send_ok1", B_OK, "recv_size")

\* Lines 124-125: the size field of the reply parses as an integer.
SizeParses(size_data) == IntParses(FirstField(Strip(size_data)))

SizeOf(size_data) == IntValue(FirstField(Strip(size_data)))

\* Lines 119-127, step 7: receive the size.
RecvSize ==
    /\ pc = "recv_size"
    /\ \E r \in RecvResults(SizeReplies) :
        /\ trace' = Append(trace, OpRecv(packet_size, r.bytes))
        /\ IF r.kind # "bytes"
           THEN HsRaise(RecvError(r.kind)) /\ UNCHANGED expected_size
           ELSE IF r.bytes = <<>> \/ ~SizeParses(r.bytes)
           THEN HsRaise("ProtocolError") /\ UNCHANGED expected_size
           ELSE HsGoes("send_ok2") /\ expected_size' = SizeOf(r.bytes)
    /\ UNCHANGED << parseVars, frameVars, sensorVars, cfgVars, sockHist, data, emptyFirst >>

\* Lines 130-136, step 8: the second OK, then the payload starts empty, the
\* timeout becomes the long one, and the loop condition is tested.
SendOK2 ==
    /\ pc = "send_ok2"
    /\ trace' = Append(trace, OpSend(B_OK))
    /\ \E o \in SendResults :
        IF o = "ok"
        THEN /\ data' = NewData(data)
             /\ sockTimeout' = "long"
             /\ pc' = IF LoopContinues(Len(NewData(data)), expected_size)
                      THEN "recv_data" ELSE "send_confirm"
             /\ UNCHANGED << sock, connected, openSockets >>
             /\ UNCHANGED callVars
        ELSE HsRaise(SendPacketError(o)) /\ UNCHANGED data
    /\ UNCHANGED << parseVars, frameVars, sensorVars, cfgVars, sockHist, expected_size, emptyFirst >>

\* What a transfer receive may return: a chunk (while the peer has chunks
\* left to deliver) or the empty result of a closed connection.
TransferReplies ==
    (IF ChunksReceived < MaxChunks THEN Chunks ELSE {}) \cup {<<>>}

\* Lines 136-145, step 9: one iteration of the transfer loop.
RecvData ==
    /\ pc = "recv_data"
    /\ \E r \in RecvResults(TransferReplies) :
        /\ trace' = Append(trace, OpRecv(TransferChunk, r.bytes))
        /\ emptyFirst' = IF r.kind = "bytes" /\ r.bytes = <<>> /\ data = <<>>
                         THEN emptyFirst + 1 ELSE emptyFirst
        /\ IF r.kind # "bytes"
           THEN HsRaise(RecvError(r.kind)) /\ UNCHANGED data
           ELSE IF r.bytes = <<>>
           THEN IF ClosedWithoutData(Len(data))
                THEN HsRaise("ProtocolError") /\ UNCHANGED data
                ELSE HsGoes("send_confirm") /\ UNCHANGED data
           ELSE /\ data' = data \o r.bytes
                /\ HsGoes(IF Contains(r.bytes, Sentinel)
                             \/ ~LoopContinues(Len(data \o r.bytes), expected_size)
                          THEN "send_confirm" ELSE "recv_data")
    /\ UNCHANGED << parseVars, frameVars, sensorVars, cfgVars, sockHist, expected_size >>

\* A confirmation that reports the bytes announced instead of those received.
ConfirmMsg_Announced(d) ==
    Sentinel \o <<" ">> \o IntToBytes(IF expected_size > 0 THEN expected_size ELSE 0)

\* Line 149: f"Transferred: {len(data)}".encode()
ConfirmMsg(d) == Sentinel \o <<" ">> \o IntToBytes(Len(d))

\* Lines 149-152 and 157-159, step 10: the confirmation frame; then
\* _get_printer_data returns the payload, the finally clause restores the
\* timeout, and get_status returns what _parse_status makes of the payload
\* (line 245).
SendConfirm ==
    /\ pc = "send_confirm"
    /\ trace' = Append(trace, OpSend(ConfirmMsg(data)))
    /\ \E o \in SendResults :
        IF o = "ok"
        THEN /\ sockTimeout' = FinallyTimeout(sock, sockTimeout)
             /\ StatusCallEffect(data)
             /\ result' = [kind |-> "mapping", tree |-> parsed'.tree]
             /\ pc' = "idle"
             /\ outcome' = "returned"
             /\ UNCHANGED << sock, connected, openSockets, attempt, err, cause,
                             errFrom, retrySleeps >>
        ELSE HsRaise(SendPacketError(o)) /\ UNCHANGED parseCallVars
    /\ UNCHANGED << input, repeat, first, between, frameVars, sensorVars >>
    /\ UNCHANGED << cfgVars, sockHist, hsVars >>

(* ------------------- the callers and the event loop -------------------- *)

\* The positions at which get_status is suspended in asyncio.sleep.
HandshakeDelays == {"delay_cmd1", "delay_cmd2", "delay_resp", "delay_xfer"}

Suspended == pc \in HandshakeDelays \cup {"retry_delay"}

\* A caller invokes connect() on its own, as async_setup_entry does.
Connect ==
    /\ pc = "idle"
    /\ \E o \in ConnectOutcomes : ConnectEffect(o)
    /\ UNCHANGED << parseVars, frameVars, sensorVars, cfgVars, pc, callVars, hsVars, trace >>

\* cleanup() runs, between calls or while get_status is suspended (the
\* unloading of the config entry does not wait for a running update).
Cleanup ==
    /\ pc = "idle" \/ Suspended
    /\ CleanupEffect
    /\ UNCHANGED << parseVars, frameVars, sensorVars, cfgVars, pc, callVars, hsVars, trace >>

\* The task running get_status is cancelled while suspended: CancelledError
\* is no Exception, so neither except clause catches it; the finally clause of
\* _get_printer_data runs when the call was inside the handshake.
Cancel ==
    /\ Suspended
    /\ pc' = "idle"
    /\ outcome' = "cancelled"
    /\ sockTimeout' = IF pc \in HandshakeDelays
                      THEN FinallyTimeout(sock, sockTimeout) ELSE sockTimeout
    /\ sockHist' = IF pc \in HandshakeDelays /\ sock # "none"
                   THEN "cancelled" ELSE sockHist
    /\ UNCHANGED << parseVars, frameVars, sensorVars, cfgVars, sock, connected, openSockets,
                    attempt, err, cause,
                    errFrom, result, retrySleeps, hsVars, trace >>

Next ==
    \/ GetStatus
    \/ AttemptTop
    \/ SendGetFile
    \/ DelayCommand1
    \/ SendFilename
    \/ DelayCommand2
    \/ SendNA
    \/ DelayResponse
    \/ RecvSendFile
    \/ DelayTransfer
    \/ RecvNA
    \/ SendOK1
    \/ RecvSize
    \/ SendOK2
    \/ RecvData
    \/ SendConfirm
    \/ RetryDelayDone
    \/ Connect
    \/ Cleanup
    \/ Cancel

Spec == Init /\ [][Next]_vars

(* -------------------------- the parser calls --------------------------- *)

\* A call of _parse_tcl_status(text), lines 181-235, on the monitor's own text
\* or, between calls on it, on a text of Between.
ParseTclCall ==
    /\ repeat \/ entry = "none"
    /\ \E text \in {input} \cup (IF repeat THEN Between ELSE {}) :
          LET end == ParseLines(FreshLocals(loc), StrippedLines(text))
              ret == TclReturn(end)
          IN  /\ arg' = text
              /\ tcl_data' = text
              /\ loc' = end
              /\ parsed' = ret
              /\ first' = IF text = input /\ ~first.known
                          THEN [known |-> TRUE, parsed |-> ret]
                          ELSE first
              /\ between' = (between \/ (first.known /\ text # input))
    /\ entry' = "tcl"
    /\ UNCHANGED << input, repeat, snapshot >>
    /\ UNCHANGED << protoVars, frameVars, sensorVars >>

\* A call of _parse_status(data), lines 161-179, on a payload that holds the
\* monitor's own text.
ParseStatusCall ==
    /\ repeat \/ entry = "none"
    /\ \E tail \in PayloadEnds : StatusCallEffect(input \o tail)
    /\ UNCHANGED << input, repeat, first, between, frameVars, sensorVars >>
    /\ UNCHANGED << protoVars, frameVars, sensorVars >>

NextParse ==
    \/ ParseTclCall
    \/ ParseStatusCall

\* One parser call on a monitor, with any text.
SpecParse == InitParse /\ [][NextParse]_vars

\* Any number of parser calls on a monitor.
SpecReparse == InitReparse /\ [][NextParse]_vars

(* ------------------------- _send_packet on its own --------------------- *)

\* The payloads whose confirmation is sent.
ConfirmedPayloads == { <<>>, ChunkStatus, ChunkStatus \o ChunkTail }

\* The commands of the handshake, lines 96, 99, 103, 118, 130 and 150.
FrameCommands ==
    { B_GetFile, B_StatusSts, B_NA, B_OK }
    \cup { ConfirmMsg(d) : d \in ConfirmedPayloads }

\* A call of _send_packet(cmd) with no expected response, lines 75-90: the
\* padded command is handed to send; a timeout or socket error of the send
\* leaves the call as ConnectionError.
SendPacketCall ==
    /\ \E cmd \in FrameCommands, o \in SendResults :
          /\ command' = cmd
          /\ frame' = Ljust(cmd, packet_size)
          /\ sendError' = IF o = "ok" THEN "none" ELSE SendPacketError(o)
    /\ UNCHANGED << protoVars, parseVars, sensorVars >>

NextFrame == SendPacketCall

\* Any number of _send_packet calls on a connected monitor.
SpecFrame == InitFrame /\ [][NextFrame]_vars

(* ----------------------- the online binary sensor --------------------- *)

\* How an update of the coordinator may end: get_status returned, or raised.
UpdateOutcomes == {"returned", "raised"}

\* coordinator.py, lines 27-32: an exception out of get_status is raised on
\* as Exception, which fails the update; a get_status that returns (None
\* included) is a successful update.
UpdateSucceeded(o) == o = "returned"

\* A sensor that is still on at MAX_FAILURES failures.
IsOn_Inclusive == failure_count <= MAX_FAILURES

\* binary_sensor.py, lines 34-37: the property is_on.
IsOn == failure_count < MAX_FAILURES

\* binary_sensor.py, lines 39-46: the coordinator has finished an update
\* and notifies the sensor.
HandleCoordinatorUpdate ==
    /\ Len(updates) < MaxUpdates
    /\ \E o \in UpdateOutcomes :
          /\ last_update_success' = UpdateSucceeded(o)
          /\ failure_count' = IF UpdateSucceeded(o) THEN 0 ELSE failure_count + 1
          /\ updates' = Append(updates, UpdateSucceeded(o))
    /\ UNCHANGED << protoVars, parseVars, frameVars >>

\* A monitor at rest with its online sensor.
InitSensor ==
    /\ retry_attempts = 1
    /\ status_file = B_StatusSts
    /\ packet_size = PacketSize
    /\ MonitorIdle
    /\ input = <<>>
    /\ repeat = FALSE
    /\ ParserIdle
    /\ FrameIdle
    /\ SensorIdle

NextSensor == HandleCoordinatorUpdate

\* Any run of updates the online sensor is notified of.
SpecSensor == InitSensor /\ [][NextSensor]_vars

(* =============================== claims ================================ *)

\* This step issues a send on self.sock.
SendsFrame ==
    /\ Len(trace') = Len(trace) + 1
    /\ trace'[Len(trace')].op = "send"

\* This step sends step 1 (GetFile) of a handshake.
SendsStep1 == pc = "send_getfile" /\ pc' # "send_getfile"

\* The running call ends in this step by returning or raising.
CallEnds == pc # "idle" /\ pc' = "idle" /\ outcome' \in {"returned", "raised"}

\* An attempt of the running call fails in this step and a retry follows.
AttemptFails == pc # "retry_delay" /\ pc' = "retry_delay"

\* The last call has ended by returning or raising.
Finished == pc = "idle" /\ outcome \in {"returned", "raised"}

(* C1: every attempt of get_status sends step 1 on a connection that no
   earlier attempt has used: when GetFile is sent, the socket held has
   carried no handshake yet. *)
C1_FreshConnectionPerAttempt == [][SendsStep1 => sockHist = "fresh"]_vars

(* C2: the socket of an attempt is closed before the next attempt starts and
   before get_status returns or raises: when an attempt fails and when the
   call ends, the monitor holds no socket. *)
C2_SocketClosedAfterAttempt == [][(CallEnds \/ AttemptFails) => sock' = "none"]_vars

(* C3: a call whose attempts all fail with ConnectionError or ProtocolError
   makes exactly retry_attempts attempts, waits retry_delay once after each
   failed attempt but the last, never after the last, and raises the failure
   of the last attempt. *)
C3_RetryBound ==
    /\ pc # "idle" => attempt < retry_attempts /\ retrySleeps = attempt
    /\ pc = "retry_delay" => attempt < retry_attempts - 1
    /\ (pc = "idle" /\ outcome = "raised") =>
        /\ attempt + 1 = retry_attempts
        /\ retrySleeps = retry_attempts - 1
        /\ err = (IF errFrom = "connect" THEN "ConnectionError" ELSE "ProtocolError")
        /\ errFrom = "connect" <=> trace = <<OpConnect>>

C3_Witness ==
    /\ pc = "idle"
    /\ outcome = "raised"
    /\ retry_attempts = MaxRetryAttempts
    /\ retrySleeps = MaxRetryAttempts - 1
    /\ errFrom = "handshake"

\* The bytes the transfer receives of the current attempt returned, in order.
RECURSIVE TransferBytes(_)
TransferBytes(t) ==
    IF Len(t) = 0 THEN <<>>
    ELSE TransferBytes(SubSeq(t, 1, Len(t) - 1))
         \o (IF t[Len(t)].op = "recv" /\ t[Len(t)].n = TransferChunk
             THEN t[Len(t)].got ELSE <<>>)

(* C4: a call that returns from a successful attempt returns what
   _parse_status makes of the bytes received in that attempt alone, and the
   confirmation frame of that attempt is the last thing the call did: no
   connect, send, receive or wait follows it, and no retry wait was made
   for it. *)
C4_SuccessReturnsOwnParse ==
    [](
    (pc = "idle" /\ outcome = "returned") =>
        /\ Len(trace) > 0
        /\ trace[Len(trace)] = OpSend(ConfirmMsg(TransferBytes(trace)))
        /\ \E cacheOk \in BOOLEAN :
              result = ParseStatus(TransferBytes(trace), cacheOk)
        /\ retrySleeps = attempt
    )

C4_Witness ==
    /\ pc = "idle"
    /\ outcome = "returned"
    /\ attempt >= 1
    /\ errFrom = "handshake"
    /\ result.tree # EmptyTree

(* C5: when in every attempt of a call the first transfer receive returns
   empty with nothing accumulated, the call raises ProtocolError after its
   retry_attempts attempts; it does not return, and in particular returns no
   empty mapping. *)
C5_EmptyFirstReceiveFails ==
    /\ (pc = "idle" /\ outcome = "returned") => emptyFirst <= attempt
    /\ (Finished /\ emptyFirst = attempt + 1) =>
        /\ outcome = "raised"
        /\ err = "ProtocolError"
        /\ attempt + 1 = retry_attempts
        /\ result # EmptyMapping

C5_Witness ==
    /\ Finished
    /\ retry_attempts = MaxRetryAttempts
    /\ emptyFirst = MaxRetryAttempts
    /\ outcome = "raised"

IsTransferRecv(e) == e.op = "recv" /\ e.n = TransferChunk

\* The transfer receives of the current attempt.
TransferRecvs == SelectSeq(trace, IsTransferRecv)

\* A transfer receive of the current attempt returned a chunk with the sentinel.
SentinelSeen ==
    \E k \in 1..Len(TransferRecvs) : Contains(TransferRecvs[k].got, Sentinel)

\* The peer followed the step table in the transfer of the current attempt:
\* it announced an unsigned size and delivered that many bytes, neither
\* closing the connection before them nor sending more.
FollowsStepTable ==
    /\ expected_size >= 0
    /\ \A k \in 1..Len(TransferRecvs) : TransferRecvs[k].got # <<>>
    /\ Len(TransferBytes(trace)) <= expected_size

(* C6: when the peer follows the step table, the payload _get_printer_data
   returns is the bytes received, and its length is the expectedSize of
   step 7 unless a received chunk contained the sentinel `Transferred:`. *)
C6_PayloadLengthIsExpectedSize ==
    (pc = "idle" /\ outcome = "returned" /\ FollowsStepTable) =>
        /\ data = TransferBytes(trace)
        /\ Len(data) = expected_size \/ SentinelSeen

C6_Witness ==
    /\ pc = "idle"
    /\ outcome = "returned"
    /\ FollowsStepTable
    /\ ~SentinelSeen
    /\ Len(TransferRecvs) = 2
    /\ Len(data) = expected_size

IsSocketOp(e) == e.op \in {"send", "recv"}

\* A socket operation as issued: what was sent, or how much was asked for.
Shape(e) == [op |-> e.op, frame |-> e.frame, n |-> e.n]

\* The socket operations the current attempt has issued, in order.
OpsIssued ==
    [i \in 1..Len(SelectSeq(trace, IsSocketOp)) |->
        Shape(SelectSeq(trace, IsSocketOp)[i])]

\* The sequence of the step table with k transfer receives, confirming d.
Pattern(k, d) ==
    << Shape(OpSend(B_GetFile)), Shape(OpSend(B_StatusSts)), Shape(OpSend(B_NA)),
       Shape(OpRecv(PacketSize, <<>>)), Shape(OpRecv(PacketSize, <<>>)),
       Shape(OpSend(B_OK)), Shape(OpRecv(PacketSize, <<>>)), Shape(OpSend(B_OK)) >>
    \o [i \in 1..k |-> Shape(OpRecv(TransferChunk, <<>>))]
    \o << Shape(OpSend(ConfirmMsg(d))) >>

IsPrefix(s, t) == Len(s) <= Len(t) /\ \A i \in 1..Len(s) : s[i] = t[i]

(* C7 as stated: the socket operations of an attempt are a prefix of the
   sequence of the step table with one or more transfer receives, and a
   successful attempt issues all of it. *)
C7_OneOrMoreTransferReceives ==
    /\ \E k \in 1..(Len(trace) + 1) : IsPrefix(OpsIssued, Pattern(k, data))
    /\ (pc = "idle" /\ outcome = "returned") =>
          \E k \in 1..(Len(trace) + 1) : OpsIssued = Pattern(k, data)

(* C7, amended: the socket operations of an attempt are a prefix of the
   sequence of the step table with zero or more transfer receives, and a
   successful attempt issues all of it, with no transfer receive exactly
   when the size parsed at step 7 is not positive. *)
C7_OpsFollowStepTable ==
    [](
    /\ \E k \in 0..Len(trace) : IsPrefix(OpsIssued, Pattern(k, data))
    /\ (pc = "idle" /\ outcome = "returned") =>
          /\ OpsIssued = Pattern(Len(TransferRecvs), data)
          /\ Len(TransferRecvs) = 0 <=> expected_size <= 0
    )

C7_Witness ==
    /\ pc = "idle"
    /\ outcome = "returned"
    /\ expected_size = 0
    /\ OpsIssued = Pattern(0, <<>>)

(* C8: every failure raised inside _get_printer_data leaves it as
   ProtocolError, whatever was raised first: a missing marker, an unparsable
   size, the ConnectionError of _send_packet, a socket timeout or error. *)
C8_HandshakeFailuresAreProtocolError ==
    errFrom = "handshake" => err = "ProtocolError"

C8_Witness ==
    /\ errFrom = "handshake"
    /\ cause = "ConnectionError"
    /\ err = "ProtocolError"

(* C9: the active timeout of the socket is the long one exactly between the
   second OK and the end of _get_printer_data; at every other position,
   also after the sequence raised at any step, it is the short one. *)
C9_TimeoutRestored ==
    /\ sockTimeout = "long" => pc \in {"recv_data", "send_confirm"}
    /\ pc \in {"recv_data", "send_confirm"} => sockTimeout = "long"

C9_Witness ==
    /\ pc = "retry_delay"
    /\ cause = "socket.timeout"
    /\ Len(TransferRecvs) > 0
    /\ sock = "connected"
    /\ sockTimeout = "short"

(* C10: after a get_status call was cancelled inside a handshake, no frame
   is sent on the connection of that handshake: the next call opens a new
   connection before it sends step 1. *)
C10_NoFrameOnCancelledConnection == [][SendsFrame => sockHist # "cancelled"]_vars

(* ------------------------- claims about the parser --------------------- *)

\* The parser was called by the last call on the monitor.
ParserRan == entry = "tcl" \/ (entry = "status" /\ StatusSlice(arg) # <<>>)

\* The lines the parser took its turns on.
LinesTaken == StrippedLines(tcl_data)

\* How many lines of ls begin with c.
LinesWith(ls, c) == Len(SelectSeq(ls, LAMBDA l : StartsWith(l, <<c>>)))

(* C11: for every input text, truncated text and text whose braces do not
   balance included, _parse_tcl_status and _parse_status return a mapping and
   raise nothing; an exception inside the parser gives the empty mapping; and
   the section stack of a call holds nothing of the call before: it never
   holds more than the `{` lines of the call's own text. *)
C11_ParserNeverRaises ==
    entry # "none" =>
        /\ parsed.exc = "none"
        /\ parsed.tree.t = "dict"
        /\ (ParserRan /\ loc.exc # "none") => parsed.tree = EmptyTree
        /\ ParserRan => Len(loc.section_stack) <= LinesWith(LinesTaken, "{")

\* A text with an open block and a value the parser fails on has been parsed,
\* after a parse that left a block open.
C11_Witness ==
    /\ between
    /\ entry = "tcl"
    /\ arg = input
    /\ loc.exc = "ValueError"
    /\ Len(loc.section_stack) = 1
    /\ parsed = NoParse

\* The last line the parser took a turn on.
LastLine == LinesTaken[Len(LinesTaken)]

\* The parser took all its lines without an exception, the last of them with
\* a mapping as current container.
LastLineStored ==
    /\ ParserRan
    /\ LinesTaken # <<>>
    /\ loc.exc = "none"
    /\ IsDictRef(loc.heap, loc.current_section)

\* What the current container holds under key k after the last line.
StoredAt(k) ==
    TreeOf(loc.heap, loc.heap[loc.current_section.ref].d[k])

\* A string, and a sequence of strings, as they stand in a tree.
TStr(s) == Scalar(VStr(s))

TList(ss) ==
    [t |-> "list", s |-> <<>>, n |-> 0, e |-> 0, d |-> NoItems,
     l |-> [k \in 1..Len(ss) |-> TStr(ss[k])]]

K_foo == <<"f","o","o">>

K_bar == <<"b","a","r">>

\* The value each example line of the claim is to store, by the claim's rule.
Typed(line) ==
    CASE line = <<"-","f","o","o"," ","3">> ->
            [key |-> K_foo, value |-> Scalar(VInt(3))]
      [] line = <<"-","f","o","o"," ","3",".","5">> ->
            [key |-> K_foo, value |-> Scalar(VFloat(35, 1))]
      [] line = <<"-","f","o","o"," ","t","r","u","e">> ->
            [key |-> K_foo, value |-> Scalar(VBool(TRUE))]
      [] line = L_Bar ->
            [key |-> K_bar, value |-> Scalar(VBool(FALSE))]
      [] line = <<"-","f","o","o"," ","{","a"," ","b"," ","c","}">> ->
            [key |-> K_foo, value |-> TList(<< <<"a">>, <<"b">>, <<"c">> >>)]
      [] line = <<"-","f","o","o"," ","{","b","a","r","}">> ->
            [key |-> K_foo, value |-> TStr(<<"b","a","r">>)]
      [] line = <<"-","f","o","o"," ","b","a","r">> ->
            [key |-> K_foo, value |-> TStr(<<"b","a","r">>)]

\* The example lines.
TypedLines ==
    { <<"-","f","o","o"," ","3">>, <<"-","f","o","o"," ","3",".","5">>,
      <<"-","f","o","o"," ","t","r","u","e">>, L_Bar,
      <<"-","f","o","o"," ","{","a"," ","b"," ","c","}">>,
      <<"-","f","o","o"," ","{","b","a","r","}">>,
      <<"-","f","o","o"," ","b","a","r">> }

(* C12: a key-value line is typed by the shape of its value: braces are
   stripped and the value becomes a sequence of strings when it holds a
   space, a string otherwise; digits with at most one dot become an integer
   or a float; true and false in any letter case become a boolean; anything
   else stays a string. So -foo 3 stores 3, -foo 3.5 stores 3.5, -foo true
   stores true, -bar FALSE stores false, -foo {a b c} stores ["a","b","c"],
   -foo {bar} and -foo bar store "bar", under the key of the line in the
   current container. *)
C12_ValueTypedByShape ==
    (LastLineStored /\ LastLine \in TypedLines) =>
        /\ Typed(LastLine).key \in DOMAIN loc.heap[loc.current_section.ref].d
        /\ StoredAt(Typed(LastLine).key) = Typed(LastLine).value

\* -foo 3.5 was parsed in the general section, which now holds the float.
C12_Witness ==
    /\ entry = "tcl"
    /\ LastLineStored
    /\ LastLine = <<"-","f","o","o"," ","3",".","5">>
    /\ SectionName(L_General) \in DOMAIN parsed.tree.d
    /\ K_foo \in DOMAIN parsed.tree.d[SectionName(L_General)].d
    /\ parsed.tree.d[SectionName(L_General)].d[K_foo] = Scalar(VFloat(35, 1))

\* The locals as they stood before the last line was taken.
BeforeLast ==
    ParseLines(FreshLocals(NoLocals), SubSeq(LinesTaken, 1, Len(LinesTaken) - 1))

\* The last line of a text the parser was called on is line, and the parser
\* reached it without an exception, with a mapping as current container.
ReachedLastLine(line) ==
    /\ entry = "tcl"
    /\ LinesTaken # <<>>
    /\ LastLine = line
    /\ BeforeLast.exc = "none"
    /\ IsDictRef(BeforeLast.heap, BeforeLast.current_section)

\* The last line stored its value verbatim as a string under its key and
\* nothing else of the tree changed.
LastLineStoredVerbatim ==
    /\ loc.exc = "none"
    /\ loc.heap =
         [BeforeLast.heap EXCEPT ![BeforeLast.current_section.ref].d =
             SetItem(@, KeyOf(LastLine), VStr(ValueOf(LastLine)))]
    /\ parsed.tree = TreeOf(loc.heap, VRef(1))

L_Minus == <<"-","f","o","o"," ","-","5">>

(* C13: a key-value line whose value is a negative number (-5) or a number
   with more than one dot (1.2.3) stores the value as a string, verbatim,
   under its key, and leaves every other entry of the tree being built as
   it was. *)
C13_OddNumbersStayStrings ==
    (ReachedLastLine(L_Minus) \/ ReachedLastLine(L_Dots)) =>
        LastLineStoredVerbatim

\* The blocks a text leaves open: a line that starts with { opens one, a
\* line that starts with } closes the innermost one if there is one.
RECURSIVE OpenBlocks(_, _)
OpenBlocks(depth, lines) ==
    IF lines = <<>> THEN depth
    ELSE IF StartsWith(Head(lines), <<"{">>)
    THEN OpenBlocks(depth + 1, Tail(lines))
    ELSE IF StartsWith(Head(lines), <<"}">>)
    THEN OpenBlocks(IF depth > 0 THEN depth - 1 ELSE 0, Tail(lines))
    ELSE OpenBlocks(depth, Tail(lines))

\* The { lines and the } lines of the text do not balance.
Unbalanced == LinesWith(LinesTaken, "{") # LinesWith(LinesTaken, "}")

\* A call of _parse_tcl_status went through all its lines without exception.
CompletedClean == entry = "tcl" /\ loc.exc = "none"

\* C14 as stated: a parse that completes without an internal exception has
\* an empty brace stack, and text whose { and } lines do not balance yields
\* the empty mapping.
C14_StackEmptyOnCompletion ==
    CompletedClean =>
        /\ loc.section_stack = <<>>
        /\ Unbalanced => parsed.tree = EmptyTree

(* C14, amended: a parse that completes without an internal exception holds
   on its brace stack one entry for each { line that no } line has closed (a
   } line met with an empty stack is ignored), so the stack is empty exactly
   when no block is left open; the stack is never inspected, and text whose
   { and } lines do not balance yields the tree built from its lines. *)
C14_StackHoldsOpenBlocks ==
    CompletedClean =>
        /\ Len(loc.section_stack) = OpenBlocks(0, LinesTaken)
        /\ parsed.exc = "none"
        /\ parsed.tree = TreeOf(loc.heap, VRef(1))

\* A text that fills the general section and then opens a block it never
\* closes: the call returns the section, with one entry left on the stack.
C14_Witness ==
    /\ CompletedClean
    /\ Unbalanced
    /\ Len(loc.section_stack) = 1
    /\ SectionName(L_General) \in DOMAIN parsed.tree.d
    /\ parsed.tree.d[SectionName(L_General)] # EmptyTree

\* Where the two markers first occur in the payload _parse_status was given
\* (0-based, -1 when absent).
MarkerAt == Find(arg, StartMarker)

SentinelAt == Find(arg, Sentinel)

(* C15: _parse_status gives the parser the bytes of the payload from the
   first occurrence of "set machineStatus" up to, not including, the first
   occurrence of "Transferred:" (decoded); a payload without the
   "set machineStatus" marker gives the empty mapping, raises nothing and
   never reaches the parser. *)
C15_ParserFedMarkedSlice ==
    entry = "status" =>
        /\ (MarkerAt >= 0 /\ SentinelAt > MarkerAt) =>
              tcl_data = Decode(SubSeq(arg, MarkerAt + 1, SentinelAt))
        /\ MarkerAt < 0 =>
              /\ parsed = NoParse
              /\ tcl_data = <<>>
              /\ loc = NoLocals

\* A payload with bytes before the marker and a byte that is no UTF-8 before
\* the sentinel: the parser was given the slice and returned a tree.
C15_Witness ==
    /\ entry = "status"
    /\ MarkerAt > 0
    /\ SentinelAt > MarkerAt
    /\ arg[SentinelAt] = InvalidByte
    /\ Len(tcl_data) = SentinelAt - MarkerAt - 1
    /\ parsed.tree # EmptyTree

\* The payload of the attempt whose handshake succeeded cannot be parsed: it
\* has no start marker, or the parser met an exception on its text.
PayloadUnparsable ==
    /\ entry = "status"
    /\ (MarkerAt < 0 \/ loc.exc # "none")

(* C16: when the handshake of an attempt succeeds and its payload cannot be
   parsed (no start marker, or an exception inside the parser), get_status
   returns the empty mapping from that attempt: the call has ended, it
   raised nothing and no further attempt was started, whatever attempts
   were left. *)
C16_UnparsablePayloadReturnsEmpty ==
    PayloadUnparsable =>
        /\ pc = "idle"
        /\ outcome = "returned"
        /\ result = EmptyMapping

\* The first of several attempts received a payload with the marker and a
\* line float() rejects: the call returned {} with attempts left.
C16_Witness ==
    /\ PayloadUnparsable
    /\ MarkerAt >= 0
    /\ loc.exc = "ValueError"
    /\ attempt + 1 < retry_attempts
    /\ outcome = "returned"
    /\ result = EmptyMapping

\* The monitor's text has just been parsed, and not for the first time.
ParsedAgain == entry = "tcl" /\ arg = input /\ first.known

(* C17: parsing keeps no state between calls: whenever a text is parsed
   again on the same monitor, whatever other texts and payloads were parsed
   on it in between, the call yields a tree structurally equal to the one
   the first parse of the text yielded (and ends the same way). *)
C17_SameTextSameTree ==
    ParsedAgain => parsed = first.parsed

\* A text that yields a non-empty tree was parsed, then another text, then
\* the first text again.
C17_Witness ==
    /\ ParsedAgain
    /\ between
    /\ first.parsed.tree # EmptyTree
    /\ parsed.tree = first.parsed.tree

\* The size reply and the payload of the scenario: 120 bytes that hold the
\* general section with -modelerStatus {Building} and end with the sentinel.
CanonicalSize == <<"1","2","0"," ">>

CanonicalPayload == ChunkStatus \o ChunkTail

\* The attempt received bytes as a reply of PacketSize at most.
Received(bytes) ==
    \E i \in 1..Len(trace) : trace[i] = OpRecv(PacketSize, bytes)

\* The printer of the scenario: it replied SendFile, NA and the size, sent
\* the payload, and the snapshot of the parsed status was written.
CanonicalExchange ==
    /\ entry = "status"
    /\ Received(B_SendFile) /\ Received(B_NA) /\ Received(CanonicalSize)
    /\ expected_size = Len(CanonicalPayload)
    /\ arg = CanonicalPayload
    /\ snapshot = "written"

K_general == <<"g","e","n","e","r","a","l">>

K_modelerStatus == <<"m","o","d","e","l","e","r","S","t","a","t","u","s">>

(* C18: with a printer that replies SendFile, then NA, then "120 ", then
   120 bytes of payload that hold set machineStatus(general) and
   -modelerStatus {Building} before Transferred:, get_status returns a
   StatusTree in which general.modelerStatus is the string "Building". *)
C18_CanonicalExchangeYieldsBuilding ==
    CanonicalExchange =>
        /\ outcome = "returned"
        /\ result.kind = "mapping"
        /\ K_general \in DOMAIN result.tree.d
        /\ K_modelerStatus \in DOMAIN result.tree.d[K_general].d
        /\ result.tree.d[K_general].d[K_modelerStatus] =
              TStr(<<"B","u","i","l","d","i","n","g">>)

\* The scenario has run: the call returned after the payload of 120 bytes
\* arrived in two receives.
C18_Witness ==
    /\ CanonicalExchange
    /\ Len(data) = SizeOf(CanonicalSize)
    /\ Len(TransferRecvs) = 2
    /\ pc = "idle"
    /\ outcome = "returned"
    /\ result.tree # EmptyTree

\* The monitor holds no socket and is not connected.
Released == sock = "none" /\ connected = FALSE

(* C19: cleanup() never raises and is idempotent: from every state of the
   monitor (never connected, connected, in the middle of a handshake,
   already cleaned up, close() failing) a call of cleanup() ends with no
   socket held and connected = False, no exception leaves it, and a call
   on a monitor that is already released changes nothing. *)
C19_CleanupReleasesAndIsIdempotent ==
    [][Cleanup =>
          /\ Released'
          /\ sockHist' # "close_raised"
          /\ Released => UNCHANGED vars]_vars

\* cleanup() ran while get_status was suspended inside a handshake, whose
\* socket is gone.
C19_Witness ==
    /\ pc \in HandshakeDelays
    /\ trace # <<>>
    /\ Released
    /\ sockHist = "fresh"

\* The frames the current attempt has sent, in order.
FramesSent == SelectSeq(trace, LAMBDA e : e.op = "send")

(* C20: the frame sent at step 2 carries the status filename of the
   PrinterConfig: for every configured status_file, the second frame of an
   attempt is that filename. *)
C20_Step2SendsConfiguredFilename ==
    Len(FramesSent) >= 2 => FramesSent[2].frame = status_file

(* ----------------- claims about the steps of the handshake ------------- *)

\* The receives of the current attempt that ask for one packet: those of
\* steps 4, 5 and 7, in this order.
PacketRecvs ==
    SelectSeq(trace, LAMBDA e : e.op = "recv" /\ e.n = PacketSize)

\* The current attempt has failed inside the handshake with ProtocolError and
\* has not been followed by another attempt or call yet.
AttemptFailedInHandshake ==
    /\ pc \in {"retry_delay", "attempt", "idle"}
    /\ errFrom = "handshake"
    /\ err = "ProtocolError"
    /\ result = NoResult

\* Step k of the packet receives (1: step 4, 2: step 5) got a reply without
\* the marker.
ReplyLacks(k, marker) ==
    /\ Len(PacketRecvs) >= k
    /\ ~Contains(PacketRecvs[k].got, marker)

\* The operation that ended the current attempt's trace is the k-th packet
\* receive: nothing was sent, received or waited for after it.
EndsAtPacketRecv(k) ==
    /\ Len(PacketRecvs) = k
    /\ trace[Len(trace)] = PacketRecvs[k]
    /\ \A i \in 1..Len(trace) : trace[i].op = "send" =>
          trace[i].frame \notin {B_OK} /\ ~StartsWith(trace[i].frame, Sentinel)

(* C21: when the reply of step 4 does not contain SendFile, or the reply of
   step 5 does not contain NA, the attempt fails with ProtocolError at that
   step: no OK frame and no confirmation frame is sent and no later receive
   is issued on that attempt. *)
C21_MissingMarkerEndsAttempt ==
    [](
    /\ ReplyLacks(1, B_SendFile) => (AttemptFailedInHandshake /\ EndsAtPacketRecv(1))
    /\ ReplyLacks(2, B_NA) => (AttemptFailedInHandshake /\ EndsAtPacketRecv(2))
    )

\* Step 4 was answered with SendFile, step 5 with a reply that holds no NA:
\* the attempt failed there, a retry is due.
C21_Witness ==
    /\ Len(PacketRecvs) = 2
    /\ Contains(PacketRecvs[1].got, B_SendFile)
    /\ PacketRecvs[2].got = <<"E","R","R">>
    /\ cause = "ProtocolError"
    /\ AttemptFailedInHandshake
    /\ pc = "retry_delay"

\* The first whitespace-delimited token of a reply (empty when it has none).
FirstToken(reply) ==
    IF SplitWhitespace(reply) = <<>> THEN <<>> ELSE SplitWhitespace(reply)[1]

\* The reply of step 7 is there and is empty or does not start with an
\* unsigned decimal integer.
SizeReplyUnusable ==
    /\ Len(PacketRecvs) >= 3
    /\ ~IsDigits(FirstToken(PacketRecvs[3].got))

\* The frames of the current attempt that are an OK.
OKsSent == SelectSeq(trace, LAMBDA e : e.op = "send" /\ e.frame = B_OK)

\* The frames of the current attempt that are a confirmation.
ConfirmsSent ==
    SelectSeq(trace, LAMBDA e : e.op = "send" /\ StartsWith(e.frame, Sentinel))

(* C22: when the reply of step 7 is empty, or its first whitespace-delimited
   token is not an unsigned decimal integer (abc, -5), the attempt fails with
   ProtocolError: the second OK is not sent, no transfer receive is issued
   and no confirmation frame is sent. *)
C22_UnusableSizeEndsAttempt ==
    SizeReplyUnusable =>
        /\ AttemptFailedInHandshake
        /\ Len(OKsSent) = 1
        /\ TransferRecvs = <<>>
        /\ ConfirmsSent = <<>>

\* The call is inside the bulk transfer: about to receive, or done receiving
\* and about to confirm.
InTransfer == pc \in {"recv_data", "send_confirm"}

\* What the last transfer receive of the current attempt returned.
LastChunk == TransferRecvs[Len(TransferRecvs)].got

\* One of the three conditions that end the receiving.
StopCondition ==
    \/ Len(data) >= expected_size
    \/ TransferRecvs # <<>> /\ Contains(LastChunk, Sentinel)
    \/ TransferRecvs # <<>> /\ LastChunk = <<>>

(* C23: during the bulk transfer the accumulated payload is the chunks
   received so far, in arrival order and nothing else, and the loop has
   stopped receiving exactly when the accumulated length has reached
   expectedSize, the chunk just appended contains Transferred:, or a receive
   returned empty; while none of these holds the next step is another
   receive. *)
C23_TransferAccumulatesAndStops ==
    InTransfer =>
        /\ data = TransferBytes(trace)
        /\ pc = "send_confirm" <=> StopCondition
        /\ pc = "recv_data" <=> ~StopCondition

\* Two chunks arrived, the second with the sentinel, and receiving stopped
\* short of the announced size with both chunks accumulated in order.
C23_Witness ==
    /\ pc = "send_confirm"
    /\ Len(TransferRecvs) = 2
    /\ TransferRecvs[1].got # TransferRecvs[2].got
    /\ data = TransferRecvs[1].got \o TransferRecvs[2].got
    /\ Contains(LastChunk, Sentinel)
    /\ Len(data) < expected_size

\* The number a confirmation frame reports: the decimal digits after
\* "Transferred: ".
Reported(f) == DigitsVal(SubSeq(f, Len(Sentinel) + 2, Len(f)))

\* A frame that is the text "Transferred: <N>" for a decimal N.
IsConfirmation(f) ==
    /\ StartsWith(f, Sentinel \o <<" ">>)
    /\ IsDigits(SubSeq(f, Len(Sentinel) + 2, Len(f)))

\* The current attempt succeeded: get_status returned what became of its
\* payload.
AttemptSucceeded ==
    pc = "idle" /\ outcome = "returned" /\ result.kind = "mapping"

(* C24: an attempt whose transfer ends without failure (size reached,
   sentinel seen, empty receive after some bytes) sends exactly one
   confirmation frame Transferred: <N>, after its last receive, with N the
   length of the payload it returns; an attempt that fails before or during
   the transfer sends none. So the trace of an attempt holds at most one
   confirmation; when it holds one, that is its last operation, the transfer
   before it had ended, and N counts the bytes accumulated; an attempt that
   is past its transfer has issued it, all others have not. *)
C24_OneConfirmationAfterTransfer ==
    /\ Len(ConfirmsSent) <= 1
    /\ ConfirmsSent # <<>> =>
          /\ trace[Len(trace)] = ConfirmsSent[1]
          /\ IsConfirmation(ConfirmsSent[1].frame)
          /\ Reported(ConfirmsSent[1].frame) = Len(data)
          /\ data = TransferBytes(trace)
          /\ StopCondition
    /\ AttemptSucceeded =>
          /\ Len(ConfirmsSent) = 1
          /\ arg = data
          /\ Reported(ConfirmsSent[1].frame) = Len(arg)
    /\ (InTransfer \/ pc \in { "send_getfile", "send_ok2", "recv_size" }) =>
          ConfirmsSent = <<>>
    /\ (AttemptFailedInHandshake /\ cause \in {"ProtocolError", "socket.timeout", "OSError"}) =>
          ConfirmsSent = <<>>

\* A transfer that a closed connection ended after one chunk, short of the
\* announced size: the attempt confirmed the bytes it had and returned.
C24_Witness ==
    /\ AttemptSucceeded
    /\ Len(TransferRecvs) = 2
    /\ LastChunk = <<>>
    /\ 0 < Len(data) /\ Len(data) < expected_size
    /\ Reported(ConfirmsSent[1].frame) = Len(data)

\* What the current attempt did after its connection was there.
Steps == SelectSeq(trace, LAMBDA e : e.op # "connect")

\* The delays of the current attempt, in order.
DelaysTaken == SelectSeq(trace, LAMBDA e : e.op = "delay")

(* C25: on every attempt a command delay elapses between the sending of
   GetFile and that of the filename and between the filename and NA, a
   response delay between NA and the first receive, a transfer delay between
   a step-4 reply with SendFile and the receive of step 5; none of them is
   skipped, and no later step is followed by a delay. *)
C25_DelaysBetweenSteps ==
    \A i \in 1..Len(Steps) :
        CASE i = 1 -> Steps[i] = OpSend(B_GetFile)
          [] i = 2 -> Steps[i] = OpDelay("command")
          [] i = 3 -> Steps[i].op = "send" /\ Steps[i] # OpSend(B_NA)
          [] i = 4 -> Steps[i] = OpDelay("command")
          [] i = 5 -> Steps[i] = OpSend(B_NA)
          [] i = 6 -> Steps[i] = OpDelay("response")
          [] i = 7 -> Steps[i].op = "recv"
          [] i = 8 -> Steps[i] = OpDelay("transfer") /\ Contains(Steps[7].got, B_SendFile)
          [] i = 9 -> Steps[i].op = "recv"
          [] OTHER -> Steps[i].op \in {"send", "recv"}

\* An attempt past the second OK: its four delays lie between the first
\* five socket operations, the steps after them followed one another
\* without delay.
C25_Witness ==
    /\ pc = "recv_data"
    /\ Len(Steps) = 12
    /\ DelaysTaken = << OpDelay("command"), OpDelay("command"),
                        OpDelay("response"), OpDelay("transfer") >>

(* ------------------------ claims about _send_packet -------------------- *)

\* _send_packet has been called on its own.
PacketSent == command # <<>>

\* What the frame holds after the bytes of the command.
Padding == SubSeq(frame, Len(command) + 1, Len(frame))

\* The frame is the command followed by zero bytes only.
CommandThenZeros ==
    /\ IsPrefix(command, frame)
    /\ \A k \in 1..Len(Padding) : Padding[k] = "\\0"

\* C26 as stated: for every packet_size the frame has length packet_size
\* and is the command followed by zero bytes only.
C26_FrameHasPacketSize ==
    PacketSent => (Len(frame) = packet_size /\ CommandThenZeros)

(* C26, amended: for every configured packet_size and every command of the
   handshake, the confirmation included, the frame _send_packet writes is
   the command followed by zero bytes only; its length is packet_size when
   the command is no longer than packet_size, and the length of the command,
   which is never cut, when it is longer. *)
C26_FramePaddedNeverCut ==
    PacketSent =>
        /\ CommandThenZeros
        /\ Len(command) <= packet_size => Len(frame) = packet_size
        /\ Len(command) > packet_size => frame = command

\* The confirmation of the 120 bytes, sent with the packet_size of the
\* integration: 16 bytes of text and zero bytes up to the 64th.
C26_Witness ==
    /\ PacketSent
    /\ packet_size = PacketSize
    /\ command = ConfirmMsg(ChunkStatus \o ChunkTail)
    /\ Len(frame) = PacketSize
    /\ frame[Len(command)] = "0"
    /\ frame[PacketSize] = "\\0"
    /\ sendError = "none"

(* --------------------------- claims about connect ---------------------- *)

\* An attempt of get_status starts in this step (lines 240-242).
AttemptStarts == pc = "attempt" /\ pc' # "attempt"

\* connect() was called in this step and raised ConnectionError, which
\* get_status took as the failure of the attempt.
ConnectFailed ==
    /\ connected' = FALSE
    /\ sock' # "connected"
    /\ err' = "ConnectionError"
    /\ errFrom' = "connect"
    /\ pc' \in {"retry_delay", "idle"}
    /\ pc' = "idle" => outcome' = "raised"
    /\ pc' = "retry_delay" <=> MoreAttempts(attempt, retry_attempts)

\* connect() was called in this step and returned.
ConnectSucceeded ==
    /\ connected' = TRUE
    /\ sock' = "connected"
    /\ pc' = "send_getfile"
    /\ UNCHANGED << err, errFrom, outcome >>

(* C27: connect() makes one connection attempt and never retries: when it
   fails it raises ConnectionError and leaves connected = False, so the next
   attempt of get_status calls connect() again; when it succeeds it sets
   connected = True. So an attempt that finds the monitor not connected
   calls connect() exactly once, and either goes on connected or fails with
   ConnectionError and connected = False; an attempt that finds it connected
   does not call connect(); and a connect() of another caller leaves
   connected true exactly when it holds a connected socket. *)
C27_ConnectOnceNoRetry ==
    [][ /\ (AttemptStarts /\ ~connected) =>
              /\ trace' = <<OpConnect>>
              /\ ConnectFailed \/ ConnectSucceeded
        /\ (AttemptStarts /\ connected) =>
              /\ trace' = <<>>
              /\ UNCHANGED sockVars
        /\ Connect => (connected' <=> sock' = "connected")
      ]_vars

\* The first attempt failed in connect(); the second called connect() again,
\* which succeeded, and is about to send step 1.
C27_Witness ==
    /\ attempt = 1
    /\ pc = "send_getfile"
    /\ trace = <<OpConnect>>
    /\ errFrom = "connect"
    /\ err = "ConnectionError"
    /\ connected
    /\ sockHist = "fresh"

(* ------------------- claims about blocks and sections ------------------ *)

\* The objects an object of the heap refers to.
RefsOf(obj) ==
    { obj.d[k].ref : k \in { x \in DOMAIN obj.d : obj.d[x].t = "ref" } }
    \cup { obj.l[k].ref : k \in { x \in DOMAIN obj.l : obj.l[x].t = "ref" } }

\* The objects reachable from those of S.
RECURSIVE ReachFrom(_, _)
ReachFrom(heap, S) ==
    LET more == S \cup UNION { RefsOf(heap[i]) : i \in S }
    IN  IF more = S THEN S ELSE ReachFrom(heap, more)

\* The mappings a { line created and a key-value line stored into.
FilledBlocks ==
    { i \in 2..Len(loc.heap) :
        /\ loc.heap[i].kind = "dict"
        /\ loc.heap[i].d # NoItems
        /\ \A k \in DOMAIN loc.heap[1].d : loc.heap[1].d[k] # VRef(i) }

(* C28: the key-value lines between a { line and its } line are stored in a
   new mapping that is reachable from the returned StatusTree, as a nested
   mapping or as an element of a sequence of mappings under the enclosing
   section: every mapping of a block that holds a key is reachable from the
   root of the tree returned. *)
C28_BlocksReachableFromTree ==
    CompletedClean => FilledBlocks \subseteq ReachFrom(loc.heap, {1})

\* A value of the root as the StatusTree has it: a mapping, or a sequence of
\* mappings.
IsSection(v) ==
    \/ v.t = "dict"
    \/ v.t = "list" /\ \A k \in 1..Len(v.l) : v.l[k].t = "dict"

(* C29: in every StatusTree the parser returns, each entry of the root maps
   a section name to a mapping or to a sequence of mappings: no key-value
   line, wherever it stands in the input, puts a scalar or a sequence of
   strings directly into the root. *)
C29_RootHoldsSectionsOnly ==
    entry # "none" =>
        \A k \in DOMAIN parsed.tree.d : IsSection(parsed.tree.d[k])

\* The root mapping before the last line was taken.
RootBefore == BeforeLast.heap[1].d

\* The name the last line gives between its parentheses.
LastSection == SectionName(LastLine)

\* The last line of a text the parser was called on is a section line, met
\* without an exception, and its name is not held by the root as anything
\* but a section.
ReachedSectionLine ==
    /\ entry = "tcl"
    /\ LinesTaken # <<>>
    /\ StartsWith(LastLine, SectionPrefix)
    /\ BeforeLast.exc = "none"
    /\ LastSection \in DOMAIN RootBefore =>
          IsDictRef(BeforeLast.heap, RootBefore[LastSection])

(* C30: a line set machineStatus(S) makes the mapping of section S the
   current container; when S is already in the root, the mapping it has is
   selected, with every key stored in it earlier kept, and no object of the
   tree changes; when S is new, an empty mapping is put into the root under
   S and nothing else changes. *)
C30_SectionLineSelectsSection ==
    ReachedSectionLine =>
        /\ loc.exc = "none"
        /\ loc.section_stack = BeforeLast.section_stack
        /\ LastSection \in DOMAIN loc.heap[1].d
        /\ loc.current_section = loc.heap[1].d[LastSection]
        /\ IsDictRef(loc.heap, loc.current_section)
        /\ IF LastSection \in DOMAIN RootBefore
           THEN /\ loc.heap = BeforeLast.heap
                /\ loc.current_section = RootBefore[LastSection]
           ELSE /\ Len(loc.heap) = Len(BeforeLast.heap) + 1
                /\ loc.heap[Len(loc.heap)] = DictObj(NoItems)
                /\ loc.current_section = VRef(Len(loc.heap))
                /\ \A i \in 2..Len(BeforeLast.heap) : loc.heap[i] = BeforeLast.heap[i]
                /\ \A k \in DOMAIN RootBefore : loc.heap[1].d[k] = RootBefore[k]
                /\ DOMAIN loc.heap[1].d = DOMAIN RootBefore \cup {LastSection}

\* The general section was opened, given a key, and selected again by a
\* second section line: it still holds the key.
C30_Witness ==
    /\ ReachedSectionLine
    /\ LastSection \in DOMAIN RootBefore
    /\ LastSection \in DOMAIN parsed.tree.d
    /\ K_foo \in DOMAIN parsed.tree.d[LastSection].d
    /\ parsed.tree.d[LastSection].d[K_foo] = Scalar(VInt(3))
    /\ loc.current_section = loc.heap[1].d[LastSection]

(* ------------------- claims about the lines of the parser -------------- *)

\* The locals after the first n lines of the text.
LocalsAfter(n) ==
    ParseLines(FreshLocals(NoLocals), SubSeq(LinesTaken, 1, n))

\* The blocks open after the first n lines of the text.
DepthAfter(n) == OpenBlocks(0, SubSeq(LinesTaken, 1, n))

\* Line i opens the block that the last line of the text closes.
OpensLastBlock(i) ==
    /\ StartsWith(LinesTaken[i], <<"{">>)
    /\ DepthAfter(i - 1) = DepthAfter(Len(LinesTaken) - 1) - 1

\* The { line that matches the last line of the text, a } line.
MatchingOpen ==
    CHOOSE i \in 1..(Len(LinesTaken) - 1) :
        /\ OpensLastBlock(i)
        /\ \A j \in (i + 1)..(Len(LinesTaken) - 1) : ~OpensLastBlock(j)

\* The last line of a text the parser was called on begins with }, and the
\* parser reached it without an exception.
ReachedCloseLine ==
    /\ entry = "tcl"
    /\ LinesTaken # <<>>
    /\ StartsWith(LastLine, <<"}">>)
    /\ BeforeLast.exc = "none"

(* C31: a } line met with an empty stack changes neither the current
   container, nor the stack, nor the tree; a } line met with a non-empty
   stack removes the top of the stack and makes the current container the one
   that was current at the matching { line; no object of the tree changes. *)
C31_CloseLinePopsOrNothing ==
    ReachedCloseLine =>
        /\ loc.exc = "none"
        /\ loc.heap = BeforeLast.heap
        /\ parsed.tree = TreeOf(BeforeLast.heap, VRef(1))
        /\ IF BeforeLast.section_stack = <<>>
           THEN /\ loc.current_section = BeforeLast.current_section
                /\ loc.section_stack = <<>>
           ELSE /\ loc.section_stack =
                     SubSeq(BeforeLast.section_stack, 1,
                            Len(BeforeLast.section_stack) - 1)
                /\ DepthAfter(Len(LinesTaken) - 1) = Len(BeforeLast.section_stack)
                /\ loc.current_section =
                     LocalsAfter(MatchingOpen - 1).current_section

\* The general section was selected, a block opened in it and closed again:
\* the section is the current container and the stack is empty.
C31_Witness ==
    /\ ReachedCloseLine
    /\ Len(BeforeLast.section_stack) = 1
    /\ loc.section_stack = <<>>
    /\ SectionName(L_General) \in DOMAIN loc.heap[1].d
    /\ loc.current_section = loc.heap[1].d[SectionName(L_General)]
    /\ loc.current_section # BeforeLast.current_section

\* A line of none of the shapes the parser acts on: a comment, or a line that
\* is no section line and begins with none of {, } and -.
IsOtherLine(line) ==
    \/ StartsWith(line, <<"#">>)
    \/ /\ ~StartsWith(line, SectionPrefix)
       /\ ~StartsWith(line, <<"{">>)
       /\ ~StartsWith(line, <<"}">>)
       /\ ~StartsWith(line, <<"-">>)

\* The last line of a text the parser was called on is such a line, and the
\* parser reached it without an exception.
ReachedOtherLine ==
    /\ entry = "tcl"
    /\ LinesTaken # <<>>
    /\ IsOtherLine(LastLine)
    /\ BeforeLast.exc = "none"

(* C32: a blank line, a line beginning with #, and every line that is
   neither a section line, nor a line beginning with { or }, nor a line with
   a leading -key value pair (a line that has a - only in its middle, for
   one) leaves the tree, the current container and the stack unchanged. *)
C32_OtherLinesIgnored ==
    ReachedOtherLine =>
        /\ loc = BeforeLast
        /\ parsed.tree = TreeOf(BeforeLast.heap, VRef(1))

(* ------------------- claims about the running fetch -------------------- *)

\* The positions at which the next thing get_status does is a send or a
\* receive on the socket.
NetworkPositions ==
    {"send_getfile", "send_filename", "send_na", "recv_sendfile", "recv_na",
     "send_ok1", "recv_size", "send_ok2", "recv_data", "send_confirm"}

\* Another task of the event loop runs while get_status is under way: the
\* config entry is unloaded, or the task of the fetch is cancelled.
OtherTaskRuns == pc # "idle" /\ (Cleanup \/ Cancel)

(* C33: the points at which a running fetch can be interleaved with other
   tasks are exactly its network sends and receives, its inter-step delays
   and its retry delay: at each of these positions another task can run, and
   at no other position of get_status. *)
C33_SuspendsAtNetworkAndDelays ==
    pc # "idle" =>
        ((pc \in NetworkPositions \cup HandshakeDelays \cup {"retry_delay"})
            <=> ENABLED OtherTaskRuns)

(* C34: get_status calls connect() only when the connected flag is False,
   and no failure inside the handshake and no step of the retry loop sets
   the flag to False: once connect() has succeeded, every step of every
   later attempt and of every later get_status call leaves the flag True and
   the socket held in place (no new socket takes its place), until cleanup()
   or a connect() of another caller runs. *)
C34_ConnectedSocketIsKept ==
    [][ /\ (AttemptStarts /\ trace' = <<OpConnect>>) => ~connected
        /\ (connected /\ ~Cleanup /\ ~Connect) =>
              /\ connected'
              /\ sock' = sock
              /\ sockHist' = "fresh" => sockHist = "fresh"
              /\ trace' # <<OpConnect>>
      ]_vars

\* The first attempt failed inside the handshake; the second attempt has
\* started without a connect(), on the socket the first one used.
C34_Witness ==
    /\ attempt = 1
    /\ pc = "send_getfile"
    /\ trace = <<>>
    /\ errFrom = "handshake"
    /\ err = "ProtocolError"
    /\ connected
    /\ sock = "connected"
    /\ sockHist = "used"

(* C35: in every reachable state, after any sequence of connect(),
   get_status() and cleanup() calls with any mix of successes and failures,
   connected = True implies that a socket is held, and the monitor holds at
   most one open socket, the one in self.sock: connect() closes the socket
   it holds before it creates the new one. *)
C35_OneSocketAtMost ==
    /\ connected => sock # "none"
    /\ openSockets <= 1
    /\ openSockets = (IF sock = "none" THEN 0 ELSE 1)

\* The first attempt left a socket whose connect had failed; the connect()
\* of the second attempt closed it and holds the only open socket.
C35_Witness ==
    /\ attempt = 1
    /\ cause = "connect_error"
    /\ trace = <<OpConnect>>
    /\ pc = "send_getfile"
    /\ connected
    /\ sock = "connected"
    /\ openSockets = 1

(* ---------------------- claims about an empty transfer ----------------- *)

\* The attempt under way has parsed the size 0 at step 7.
SizeZero ==
    /\ expected_size = 0
    /\ Len(PacketRecvs) = 3
    /\ FirstToken(PacketRecvs[3].got) = <<"0">>

\* The step is taken inside the attempt and does not end it with a failure.
StepGoesWell == pc' \notin {"retry_delay", "attempt"} /\ outcome' # "raised"

(* C36: when the size parsed at step 7 is 0, the attempt issues no transfer
   receive, sends the confirmation frame Transferred: 0, and returns an empty
   payload without failure; get_status then returns the empty mapping for
   that attempt and does not retry. *)
C36_SizeZeroSkipsTransfer ==
    [][ /\ (pc = "send_ok2" /\ SizeZero /\ StepGoesWell) =>
              /\ pc' = "send_confirm"
              /\ data' = <<>>
        /\ (pc = "send_confirm" /\ SizeZero) =>
              /\ TransferRecvs = <<>>
              /\ data = <<>>
              /\ trace' = Append(trace, OpSend(Sentinel \o <<" ", "0">>))
              /\ StepGoesWell =>
                    /\ pc' = "idle"
                    /\ outcome' = "returned"
                    /\ arg' = <<>>
                    /\ result' = EmptyMapping
                    /\ UNCHANGED << attempt, retrySleeps >>
      ]_vars

\* The first attempt was told the size 0: it received nothing more, sent
\* Transferred: 0, and get_status returned the empty mapping.
C36_Witness ==
    /\ pc = "idle"
    /\ outcome = "returned"
    /\ attempt = 0
    /\ SizeZero
    /\ TransferRecvs = <<>>
    /\ Len(ConfirmsSent) = 1
    /\ ConfirmsSent[1].frame = Sentinel \o <<" ", "0">>
    /\ result = EmptyMapping

(* ------------------- claims about a payload cut short ------------------ *)

\* _parse_status was given a payload that holds the start marker and no
\* sentinel.
NoSentinelPayload ==
    /\ entry = "status"
    /\ MarkerAt >= 0
    /\ SentinelAt < 0

(* C37: when the payload contains set machineStatus and does not contain
   Transferred:, the slice that _parse_status feeds to the parser runs from
   the start marker to the end of the payload minus its last byte: the final
   byte of the payload is never parsed. *)
C37_LastByteDropped ==
    NoSentinelPayload =>
        /\ tcl_data = Decode(SubSeq(arg, MarkerAt + 1, Len(arg) - 1))
        /\ loc = ParseLines(FreshLocals(NoLocals), StrippedLines(tcl_data))

\* A payload that ends with the line -foo 3: the parser was given the text
\* without the 3, and built another tree than the whole text gives.
C37_Witness ==
    /\ NoSentinelPayload
    /\ MarkerAt = 0
    /\ arg[Len(arg)] = "3"
    /\ Len(tcl_data) = Len(arg) - 1
    /\ loc.exc = "none"
    /\ TreeOf(loc.heap, VRef(1)) # ParseTclStatus(arg).tree

(* ------------- claims about section lines inside open blocks ----------- *)

\* The positions of the section lines of the text.
SectionLines ==
    { i \in 1..Len(LinesTaken) : StartsWith(LinesTaken[i], SectionPrefix) }

\* The name the latest section line of the text selects.
SelectedLast ==
    SectionName(LinesTaken[CHOOSE i \in SectionLines : \A j \in SectionLines : j <= i])

(* C38: at every point of a parse, when the brace stack is empty the current
   container is the root or the mapping of the most recently selected
   section: a section line met inside an open { block does not make a later
   } move the current container back to an earlier section, so key-value
   lines that follow are never stored under a section other than the one
   selected last. *)
C38_EmptyStackMeansLastSection ==
    (entry = "tcl" /\ loc.exc = "none" /\ loc.section_stack = <<>>) =>
        \/ loc.current_section = VRef(1)
        \/ /\ SectionLines # {}
           /\ loc.current_section = loc.heap[1].d[SelectedLast]

(* ---------------------- claims about the snapshot file ----------------- *)

\* The tree the parser built in the last call.
TreeBuilt == TreeOf(loc.heap, VRef(1))

(* C39: when the parser has built a tree (a non-empty one too) but writing
   the snapshot file last_status.json fails, _parse_status returns the empty
   mapping instead of the parsed tree, and get_status returns that empty
   mapping as a success: the call returns, raises nothing and waits for no
   retry. *)
C39_SnapshotFailureGivesEmpty ==
    snapshot = "failed" =>
        /\ parsed = NoParse
        /\ pc = "idle"
        /\ outcome = "returned"
        /\ result = EmptyMapping
        /\ retrySleeps = attempt

\* The first attempt transferred a payload that parses to a tree with the
\* general section; the snapshot could not be written and get_status
\* returned the empty mapping.
C39_Witness ==
    /\ snapshot = "failed"
    /\ loc.exc = "none"
    /\ attempt = 0
    /\ err = "none"
    /\ outcome = "returned"
    /\ K_general \in DOMAIN TreeBuilt.d
    /\ TreeBuilt.d[K_general] # EmptyTree
    /\ result = EmptyMapping

(* --------------------- claims about the online sensor ------------------ *)

\* How many of the latest notified updates in a row have failed.
RECURSIVE TrailingFailures(_)
TrailingFailures(us) ==
    IF us = <<>> \/ us[Len(us)] THEN 0
    ELSE 1 + TrailingFailures(SubSeq(us, 1, Len(us) - 1))

(* C40: the online binary sensor counts consecutive failed coordinator
   updates: each update it is notified of sets the counter to 0 when the
   update succeeded and adds 1 when it failed, and is_on is False exactly
   when the counter is at least MAX_FAILURES (5); so the sensor is off
   exactly when the last 5 notified updates or more have all failed, and
   the first notified success turns it on again. *)
C40_OnlineSensorCountsFailures ==
    /\ failure_count = TrailingFailures(updates)
    /\ ~IsOn <=> TrailingFailures(updates) >= MAX_FAILURES
    /\ (updates # <<>> /\ updates[Len(updates)]) => (IsOn /\ failure_count = 0)
    /\ updates # <<>> => last_update_success = updates[Len(updates)]

\* After a success, five updates in a row have failed: the sensor is off.
C40_Witness ==
    /\ Len(updates) = MAX_FAILURES + 1
    /\ updates[1]
    /\ failure_count = MAX_FAILURES
    /\ ~last_update_success
    /\ ~IsOn

====
